---- MODULE Spec2Model ----
(***************************************************************************)
(* gosaidsno: the advice-execution engine (executeWithAdviceContext), the  *)
(* per-function AdviceChain, the Registry and the per-call Context, with   *)
(* the Wrap1RECtx wrapper as the caller of the engine.                     *)
(***************************************************************************)
EXTENDS Integers, Sequences, FiniteSets, TLC

VARIABLES
    entries,   \* Registry.entries: registered key -> index of its chain in chains
    chains,    \* the AdviceChain objects allocated so far (index = pointer)
    inv        \* per calling goroutine: the invocation of the wrapped function

vars == <<entries, chains, inv>>

---------------------------------------------------------------------------
(* Bounds and input sets *)

MaxAdvice == 2
\* longest bucket of the specification of the priority order
MaxHandlers == 7

Nil == "nil"

Keys == {"F"}
Procs == {"g1"}
ArgValues == {"a"}

Before == "Before"
After == "After"
Around == "Around"
AfterReturning == "AfterReturning"
AfterThrowing == "AfterThrowing"
AdviceType == {Before, After, Around, AfterReturning, AfterThrowing}

\* Behaviours of the target function fn(ctx, a) (R, error)
FnKinds == {"ok", "err", "panic"}
\* The (Priority, Handler) pairs offered to AddAdvice, for every AdviceType.
\* Only the relative order of priorities is ever read (Less), so one callback
\* with a higher priority is enough to make the sort reorder a bucket.
AdviceInputs ==
    {[Priority |-> 0, Handler |-> "nop"],
     [Priority |-> 0, Handler |-> "fail"],
     [Priority |-> 0, Handler |-> "panic"],
     [Priority |-> 0, Handler |-> "setErr"],
     [Priority |-> 1, Handler |-> "skip"]}

---------------------------------------------------------------------------
(* Context *)

NewContextWithContext(functionName, args) ==
    [FunctionName |-> functionName,
     Args         |-> args,
     Results      |-> <<>>,
     Error        |-> Nil,
     PanicValue   |-> Nil,
     Metadata     |-> <<>>,
     Skipped      |-> FALSE]

RECURSIVE Extend(_, _)
Extend(results, n) ==
    IF Len(results) >= n THEN results ELSE Extend(Append(results, Nil), n)

\* SetResult as it would be if it appended the value instead of using the index
SetResultAppending(c, index, value) ==
    IF index < 0 THEN c ELSE [c EXCEPT !.Results = Append(@, value)]

\* index is 0-based as in the source; sequences here are 1-based
SetResult(c, index, value) ==
    IF index < 0 THEN c
    ELSE [c EXCEPT !.Results = [Extend(c.Results, index + 1) EXCEPT ![index + 1] = value]]

GetResult(c, index) ==
    IF index < 0 \/ index >= Len(c.Results) THEN Nil ELSE c.Results[index + 1]

HasPanic(c) == c.PanicValue # Nil

\* SetMetadataVal as it would be if it stored nothing
SetMetadataValLost(c, key, val) == c

SetMetadataVal(c, key, val) ==
    [c EXCEPT !.Metadata = [k \in DOMAIN @ \cup {key} |-> IF k = key THEN val ELSE @[k]]]

GetMetadataVal(c, key) ==
    IF key \in DOMAIN c.Metadata
    THEN [val |-> c.Metadata[key], exists |-> TRUE]
    ELSE [val |-> Nil, exists |-> FALSE]

\* delete(c.Metadata, key)
DeleteMetadata(c, key) ==
    [c EXCEPT !.Metadata = [k \in DOMAIN @ \ {key} |-> @[k]]]

---------------------------------------------------------------------------
(* Advice and AdviceChain *)

NewAdviceChain ==
    [before |-> <<>>, after |-> <<>>, around |-> <<>>,
     afterReturning |-> <<>>, afterThrowing |-> <<>>]

Count(ac) ==
    Len(ac.before) + Len(ac.after) + Len(ac.around)
        + Len(ac.afterReturning) + Len(ac.afterThrowing)

Add(ac, advice) ==
    CASE advice.Type = Before         -> [ac EXCEPT !.before = Append(@, advice)]
      [] advice.Type = After          -> [ac EXCEPT !.after = Append(@, advice)]
      [] advice.Type = Around         -> [ac EXCEPT !.around = Append(@, advice)]
      [] advice.Type = AfterReturning -> [ac EXCEPT !.afterReturning = Append(@, advice)]
      [] advice.Type = AfterThrowing  -> [ac EXCEPT !.afterThrowing = Append(@, advice)]
      [] OTHER                        -> ac

Bucket(ac, ph) ==
    CASE ph = Before         -> ac.before
      [] ph = After          -> ac.after
      [] ph = Around         -> ac.around
      [] ph = AfterReturning -> ac.afterReturning
      [] ph = AfterThrowing  -> ac.afterThrowing

\* the comparison function handed to sort.Slice
Less(x, y) == x.Priority > y.Priority

\* one pass of the insertion sort: x moves left while Less(x, left neighbour)
RECURSIVE InsertSorted(_, _)
InsertSorted(sorted, x) ==
    IF sorted = <<>> THEN <<x>>
    ELSE IF Less(x, sorted[Len(sorted)])
         THEN Append(InsertSorted(SubSeq(sorted, 1, Len(sorted) - 1), x),
                     sorted[Len(sorted)])
         ELSE Append(sorted, x)

RECURSIVE InsertionSort(_, _)
InsertionSort(done, rest) ==
    IF rest = <<>> THEN done
    ELSE InsertionSort(InsertSorted(done, Head(rest)), Tail(rest))

\* sort.Slice, called with Less.  The library sorts a slice of up to
\* MaxInsertion elements by insertion sort, which keeps the order of the
\* elements that Less does not tell apart; the releases before pdqsort first
\* make a pass that exchanges elements ShellGap apart, reached by slices of
\* more than ShellGap elements.  Which release builds the program is not
\* fixed by the repository, so both results are outcomes.  Longer slices are
\* sorted by quicksort, of which only the contract is taken: the result is
\* ordered by Less.
ShellGap == 6
MaxInsertion == 12

RECURSIVE ShellPass(_, _)
\* for i := ShellGap; i < len; i++ { if less(i, i-ShellGap) { swap } }, i 0-based
ShellPass(l, i) ==
    IF i >= Len(l) THEN l
    ELSE IF Less(l[i + 1], l[i + 1 - ShellGap])
         THEN ShellPass([l EXCEPT ![i + 1] = l[i + 1 - ShellGap],
                                  ![i + 1 - ShellGap] = l[i + 1]], i + 1)
         ELSE ShellPass(l, i + 1)

IsSorted(l) == \A i \in 1..(Len(l) - 1) : ~Less(l[i + 1], l[i])

Orderings(l) ==
    {[i \in 1..Len(l) |-> l[f[i]]] :
        f \in {g \in [1..Len(l) -> 1..Len(l)] :
                  \A a, b \in 1..Len(l) : a # b => g[a] # g[b]}}

\* sort.Slice as it would be if it left the slice as it is
SortSliceUnsorted(adviceList) == {adviceList}

SortSlice(adviceList) ==
    IF Len(adviceList) <= MaxInsertion
    THEN {InsertionSort(<<>>, adviceList),
          InsertionSort(<<>>, ShellPass(adviceList, ShellGap))}
    ELSE {l \in Orderings(adviceList) : IsSorted(l)}

---------------------------------------------------------------------------
(* Inputs: the wrapped function and the attached callbacks *)

\* fn(ctx, a): what the target function does with argument a
Fn(kind, a) ==
    CASE kind = "ok"    -> [panic |-> Nil, res |-> "fresh:" \o a, err |-> Nil]
      [] kind = "err"   -> [panic |-> Nil, res |-> "", err |-> "target error"]
      [] kind = "panic" -> [panic |-> "boom", res |-> "", err |-> Nil]

\* the metadata calls of the callbacks: what each stores, deletes and reads
NoMeta == [key |-> Nil, val |-> Nil]
MetaWrite(h) ==
    CASE h = "putUser"  -> [key |-> "userId", val |-> "user_123"]
      [] h = "putUser2" -> [key |-> "userId", val |-> "user_456"]
      [] h = "putOther" -> [key |-> "requestId", val |-> "req_456"]
      [] OTHER          -> NoMeta
MetaDelete(h) == IF h = "delUser" THEN "userId" ELSE Nil
MetaRead(h) ==
    CASE h = "getUser" -> "userId"
      [] h = "getArg"  -> "arg"
      [] OTHER         -> Nil

\* c.Args[0], for the callbacks that use the argument of the call
FirstArg(c) == IF Len(c.Args) > 0 THEN c.Args[1] ELSE Nil

\* what an AdviceFunc does to the Context it is given
HandlerApply(h, c) ==
    CASE h = "skip"      -> [SetResult(c, 0, "cached") EXCEPT !.Skipped = TRUE]
      [] h = "skipArg"   -> [SetResult(c, 0, "cached:" \o FirstArg(c)) EXCEPT !.Skipped = TRUE]
      [] h = "tagArg"    -> SetMetadataVal(c, "arg", FirstArg(c))
      [] h = "skipNil"   -> [SetResult(c, 0, Nil) EXCEPT !.Skipped = TRUE]
      [] h = "skipOther" -> [SetResult(c, 0, "int:999") EXCEPT !.Skipped = TRUE]
      [] h = "unskip"    -> [c EXCEPT !.Skipped = FALSE]
      [] h = "overwrite" -> SetResult(c, 0, "patched")
      [] h = "setErr"    -> [c EXCEPT !.Error = "advice error"]
      [] h = "clearErr"  -> [c EXCEPT !.Error = Nil]
      [] h = "setPanic"  -> [c EXCEPT !.PanicValue = "recorded"]
      [] MetaWrite(h) # NoMeta -> SetMetadataVal(c, MetaWrite(h).key, MetaWrite(h).val)
      [] MetaDelete(h) # Nil   -> DeleteMetadata(c, MetaDelete(h))
      [] OTHER           -> c

\* what an AdviceFunc reads from the Context into a variable of its own
HandlerReads(h, c) ==
    IF MetaRead(h) # Nil THEN GetMetadataVal(c, MetaRead(h)).val ELSE Nil

\* how an AdviceFunc ends: returns nil, returns an error, or panics
HandlerReturn(h) ==
    CASE h = "fail"  -> [kind |-> "err", val |-> "advice failed"]
      [] h = "panic" -> [kind |-> "panic", val |-> "handler panic"]
      [] OTHER       -> [kind |-> "nil", val |-> Nil]

---------------------------------------------------------------------------
(* Registry *)

\* Register as it would be without its test for an existing entry
RegisterErrOverwriting(reg, name) ==
    IF name = "" THEN "function name cannot be empty" ELSE Nil

RegisterErr(reg, name) ==
    IF name = "" THEN "function name cannot be empty"
    ELSE IF name \in DOMAIN reg THEN "already registered"
    ELSE Nil

AddAdviceErr(reg, funcKey) ==
    IF funcKey = "" THEN "function name cannot be empty"
    ELSE IF funcKey \notin DOMAIN reg THEN "not registered"
    ELSE Nil

GetAdviceChain(reg, funcKey) ==
    IF funcKey = "" THEN [chain |-> 0, err |-> "function name cannot be empty"]
    ELSE IF funcKey \notin DOMAIN reg THEN [chain |-> 0, err |-> "not registered"]
    ELSE [chain |-> reg[funcKey], err |-> Nil]

---------------------------------------------------------------------------
(* The invocation record of one calling goroutine *)

\* var result R: the default value of the result type
ZeroR == ""

NoOutcome == [kind |-> "none", res |-> Nil, err |-> Nil, panic |-> Nil]

IdleInv ==
    [pc        |-> "idle",
     key       |-> "",
     arg       |-> "",
     fn        |-> "",
     wrap      |-> "",          \* the wrapper that was called
     ctxDone   |-> FALSE,       \* ctx.Done() is closed
     chain     |-> 0,           \* chain fetched by GetAdviceChain
     c         |-> NewContextWithContext("", <<>>),
     phase     |-> "",          \* phase whose executeAdviceList is running
     list      |-> <<>>,        \* sortedAdviceList still to be invoked
     panicking |-> Nil,         \* value of the panic that is unwinding
     r         |-> Nil,         \* r of the recovering deferred function
     result    |-> ZeroR,       \* var result R of the wrapper
     err       |-> Nil,         \* var err error of the wrapper
     trace     |-> <<>>,        \* history of this invocation
     outcome   |-> NoOutcome]   \* what the caller of the wrapper observes

\* History: what happened, with Context.Error and Context.PanicValue at that
\* moment.  ph: phase (or place of a panic); id, h: the advice invoked; val: an
\* error or panic value; ids: the sorted snapshot of a phase.
NoEvent == [ev |-> "", ph |-> "", id |-> 0, h |-> "", val |-> Nil, ids |-> <<>>]

Log(s, e) ==
    [s EXCEPT !.trace = Append(@, [ev |-> e.ev, ph |-> e.ph, id |-> e.id, h |-> e.h,
                                   val |-> e.val, ids |-> e.ids,
                                   err |-> s.c.Error, pv |-> s.c.PanicValue])]

Ids(list) == [i \in 1..Len(list) |-> list[i].id]

---------------------------------------------------------------------------
(* Wrapper: result and error resolution *)

\* the values a handler can store that are not of the result type R
OtherTyped == {"int:999"}

\* res, ok := v.(R)
AssertR(v) == v \notin OtherTyped

\* ResolveResult as it would be if the wrapper returned its own result
\* variable without looking at the Context
ResolveResultOriginal(c, original) == original

\* ResolveResult as it would be if the wrapper took result slot 0 whatever
\* the skip flag says
ResolveResultFromSlot(c, original) ==
    IF Len(c.Results) > 0 /\ c.Results[1] # Nil /\ AssertR(c.Results[1])
    THEN c.Results[1]
    ELSE original

ResolveResult(c, original) ==
    IF c.Skipped /\ Len(c.Results) > 0 /\ c.Results[1] # Nil /\ AssertR(c.Results[1])
    THEN c.Results[1]
    ELSE original

ResolveError(c, original) ==
    IF c.Error # Nil THEN c.Error ELSE original

\* the wrappers modelled: of a function that returns (R, error), and of a
\* function that returns only an error
Wrappers == {"Wrap1RECtx", "Wrap1ECtx"}

\* the wrapper's caller gets (result, err), or the panic that is unwinding;
\* Wrap1ECtx returns the err its closure captured, and has no result
Finish(s) ==
    IF s.panicking # Nil
    THEN [s EXCEPT !.pc = "done",
                   !.outcome = [kind |-> "panicked", res |-> Nil, err |-> Nil,
                                panic |-> s.panicking]]
    ELSE IF s.wrap = "Wrap1ECtx"
    THEN [s EXCEPT !.pc = "done",
                   !.outcome = [kind |-> "returned", res |-> Nil, err |-> s.err,
                                panic |-> Nil]]
    ELSE [s EXCEPT !.pc = "done",
                   !.outcome = [kind |-> "returned",
                                res |-> ResolveResult(s.c, s.result),
                                err |-> ResolveError(s.c, s.err),
                                panic |-> Nil]]

---------------------------------------------------------------------------
(* Engine: executeWithAdviceContext *)

\* Unwind as it would be if ExecuteAfter were called at the end of the engine
\* instead of being deferred: a panic leaves the engine without After
UnwindAfterNotDeferred(s, where, v) ==
    LET s1 == Log([s EXCEPT !.panicking = v, !.phase = "", !.list = <<>>],
                  [NoEvent EXCEPT !.ev = "panic", !.ph = where, !.val = v])
    IN
    CASE where \in {AfterThrowing, "rethrow", After} -> Finish(s1)
      [] OTHER -> [s1 EXCEPT !.pc = "deferRecover"]

\* Unwind as it would be if a panic raised inside the recovering deferred
\* function did not replace the panic it had recovered
UnwindKeepingRecovered(s, where, v) ==
    LET s1 == Log([s EXCEPT !.panicking = v, !.phase = "", !.list = <<>>],
                  [NoEvent EXCEPT !.ev = "panic", !.ph = where, !.val = v])
    IN
    CASE where = AfterThrowing -> [s1 EXCEPT !.pc = "deferAfter", !.panicking = s.r]
      [] where = "rethrow"     -> [s1 EXCEPT !.pc = "deferAfter"]
      [] where = After         -> Finish(s1)
      [] OTHER                 -> [s1 EXCEPT !.pc = "deferRecover"]

\* a panic with value v is raised while code of `where` runs (a phase, the
\* target thunk, or the panic(r) of the recovering deferred function): control
\* goes to the deferred functions that have not run yet
Unwind(s, where, v) ==
    LET s1 == Log([s EXCEPT !.panicking = v, !.phase = "", !.list = <<>>],
                  [NoEvent EXCEPT !.ev = "panic", !.ph = where, !.val = v])
    IN
    CASE where \in {AfterThrowing, "rethrow"} -> [s1 EXCEPT !.pc = "deferAfter"]
      [] where = After                         -> Finish(s1)
      [] OTHER                                 -> [s1 EXCEPT !.pc = "deferRecover"]

\* the condition as it would be without its test of Context.Error
ShouldRunAfterReturningNoErrorTest(c) == ~HasPanic(c)

ShouldRunAfterReturning(c) == c.Error = Nil /\ ~HasPanic(c)

\* AfterSkip as it would be if AfterReturning always followed a skip
AfterSkipAlwaysReturning(s) ==
    [Log(s, [NoEvent EXCEPT !.ev = "decide"]) EXCEPT !.pc = "afterReturning"]

\* after a skipping Around phase
AfterSkip(s) ==
    LET s1 == Log(s, [NoEvent EXCEPT !.ev = "decide"]) IN
    IF ShouldRunAfterReturning(s1.c)
    THEN [s1 EXCEPT !.pc = "afterReturning"]
    ELSE [s1 EXCEPT !.pc = "deferRecover"]

\* AfterTarget as it would be if the engine returned right after the thunk
AfterTargetWithoutAfterReturning(s) ==
    [Log(s, [NoEvent EXCEPT !.ev = "decide"]) EXCEPT !.pc = "deferRecover"]

\* after the target thunk returned
AfterTarget(s) ==
    LET s1 == Log(s, [NoEvent EXCEPT !.ev = "decide"]) IN
    IF ShouldRunAfterReturning(s1.c)
    THEN [s1 EXCEPT !.pc = "afterReturning"]
    ELSE [s1 EXCEPT !.pc = "deferRecover"]

\* Resume as it would be without the panic(r) that follows
\* ExecuteAfterThrowing: the recovered panic is swallowed
ResumeSwallowingPanic(s0, ph, err) ==
    LET s == Log([s0 EXCEPT !.phase = "", !.list = <<>>],
                 [NoEvent EXCEPT !.ev = "end", !.ph = ph, !.val = err])
    IN
    CASE ph = Before ->
            IF err # Nil THEN Unwind(s, Before, "before advice failed: " \o err)
            ELSE [s EXCEPT !.pc = "hasAround"]
      [] ph = Around ->
            IF err # Nil THEN Unwind(s, Around, "around advice failed: " \o err)
            ELSE IF s.c.Skipped THEN AfterSkip(s)
            ELSE [s EXCEPT !.pc = "target"]
      [] ph = AfterReturning -> [s EXCEPT !.pc = "deferRecover"]
      [] ph = AfterThrowing  -> [s EXCEPT !.pc = "deferAfter"]
      [] ph = After          -> Finish(s)

\* Resume as it would be if the errors of ExecuteBefore and ExecuteAround
\* were discarded like those of the other phases
ResumeIgnoringGateError(s0, ph, err) ==
    LET s == Log([s0 EXCEPT !.phase = "", !.list = <<>>],
                 [NoEvent EXCEPT !.ev = "end", !.ph = ph, !.val = err])
    IN
    CASE ph = Before -> [s EXCEPT !.pc = "hasAround"]
      [] ph = Around -> IF s.c.Skipped THEN AfterSkip(s) ELSE [s EXCEPT !.pc = "target"]
      [] ph = AfterReturning -> [s EXCEPT !.pc = "deferRecover"]
      [] ph = AfterThrowing  -> Unwind(s, "rethrow", s.r)
      [] ph = After          -> Finish(s)

\* Resume as it would be if the errors of ExecuteAfterReturning and
\* ExecuteAfter were escalated like those of ExecuteBefore
ResumeRaisingObserverError(s0, ph, err) ==
    LET s == Log([s0 EXCEPT !.phase = "", !.list = <<>>],
                 [NoEvent EXCEPT !.ev = "end", !.ph = ph, !.val = err])
    IN
    CASE ph = Before ->
            IF err # Nil THEN Unwind(s, Before, "before advice failed: " \o err)
            ELSE [s EXCEPT !.pc = "hasAround"]
      [] ph = Around ->
            IF err # Nil THEN Unwind(s, Around, "around advice failed: " \o err)
            ELSE IF s.c.Skipped THEN AfterSkip(s)
            ELSE [s EXCEPT !.pc = "target"]
      [] ph = AfterReturning ->
            IF err # Nil THEN Unwind(s, AfterReturning, err)
            ELSE [s EXCEPT !.pc = "deferRecover"]
      [] ph = AfterThrowing  -> Unwind(s, "rethrow", s.r)
      [] ph = After          ->
            IF err # Nil THEN Unwind(s, After, err) ELSE Finish(s)

\* Resume as it would be if the deferred function stored the error of
\* ExecuteAfter in Context.Error instead of discarding it
ResumeKeepingAfterError(s0, ph, err) ==
    LET s == Log([s0 EXCEPT !.phase = "", !.list = <<>>],
                 [NoEvent EXCEPT !.ev = "end", !.ph = ph, !.val = err])
    IN
    CASE ph = Before ->
            IF err # Nil THEN Unwind(s, Before, "before advice failed: " \o err)
            ELSE [s EXCEPT !.pc = "hasAround"]
      [] ph = Around ->
            IF err # Nil THEN Unwind(s, Around, "around advice failed: " \o err)
            ELSE IF s.c.Skipped THEN AfterSkip(s)
            ELSE [s EXCEPT !.pc = "target"]
      [] ph = AfterReturning -> [s EXCEPT !.pc = "deferRecover"]
      [] ph = AfterThrowing  -> Unwind(s, "rethrow", s.r)
      [] ph = After          ->
            IF err # Nil THEN Finish([s EXCEPT !.c.Error = err]) ELSE Finish(s)

\* Execute<ph> returned err to the engine
Resume(s0, ph, err) ==
    LET s == Log([s0 EXCEPT !.phase = "", !.list = <<>>],
                 [NoEvent EXCEPT !.ev = "end", !.ph = ph, !.val = err])
    IN
    CASE ph = Before ->
            IF err # Nil THEN Unwind(s, Before, "before advice failed: " \o err)
            ELSE [s EXCEPT !.pc = "hasAround"]
      [] ph = Around ->
            IF err # Nil THEN Unwind(s, Around, "around advice failed: " \o err)
            ELSE IF s.c.Skipped THEN AfterSkip(s)
            ELSE [s EXCEPT !.pc = "target"]
      [] ph = AfterReturning -> [s EXCEPT !.pc = "deferRecover"]
      [] ph = AfterThrowing  -> Unwind(s, "rethrow", s.r)
      [] ph = After          -> Finish(s)

\* StepAdviceList as it would be with the `return nil` inside the loop: only
\* the first handler of the sorted list is invoked
StepAdviceListFirstOnly(s) ==
    IF s.ctxDone
    THEN Resume(Log(s, [NoEvent EXCEPT !.ev = "cancelled", !.ph = s.phase]),
                s.phase, "context canceled")
    ELSE
        LET advice == Head(s.list)
            s1 == Log(s, [NoEvent EXCEPT !.ev = "handler", !.ph = s.phase,
                                         !.id = advice.id, !.h = advice.Handler,
                                         !.val = HandlerReads(advice.Handler, s.c)])
            s2 == [s1 EXCEPT !.c = HandlerApply(advice.Handler, s1.c),
                             !.list = Tail(@)]
            out == HandlerReturn(advice.Handler)
        IN  CASE out.kind = "panic" -> Unwind(s2, s.phase, out.val)
              [] out.kind = "err"   -> Resume(s2, s.phase, out.val)
              [] OTHER -> Resume(s2, s.phase, Nil)

\* StepAdviceList as it would be if the loop ranged over the chain's bucket
\* itself, as it is at each iteration, instead of the copy made at the start
StepAdviceListLive(s) ==
    IF s.ctxDone
    THEN Resume(Log(s, [NoEvent EXCEPT !.ev = "cancelled", !.ph = s.phase]),
                s.phase, "context canceled")
    ELSE
        LET live == InsertionSort(<<>>, Bucket(chains[s.chain], s.phase))
            at == Cardinality({i \in DOMAIN s.trace :
                                 s.trace[i].ev = "handler" /\ s.trace[i].ph = s.phase}) + 1
            advice == live[at]
            s1 == Log(s, [NoEvent EXCEPT !.ev = "handler", !.ph = s.phase,
                                         !.id = advice.id, !.h = advice.Handler,
                                         !.val = HandlerReads(advice.Handler, s.c)])
            s2 == [s1 EXCEPT !.c = HandlerApply(advice.Handler, s1.c),
                             !.list = SubSeq(live, at + 1, Len(live))]
            out == HandlerReturn(advice.Handler)
        IN  CASE out.kind = "panic" -> Unwind(s2, s.phase, out.val)
              [] out.kind = "err"   -> Resume(s2, s.phase, out.val)
              [] OTHER -> IF s2.list = <<>> THEN Resume(s2, s.phase, Nil) ELSE s2

\* StepAdviceList as it would be without the select on c.Context().Done()
StepAdviceListUnchecked(s) ==
    LET advice == Head(s.list)
        s1 == Log(s, [NoEvent EXCEPT !.ev = "handler", !.ph = s.phase,
                                     !.id = advice.id, !.h = advice.Handler,
                                     !.val = HandlerReads(advice.Handler, s.c)])
        s2 == [s1 EXCEPT !.c = HandlerApply(advice.Handler, s1.c),
                         !.list = Tail(@)]
        out == HandlerReturn(advice.Handler)
    IN  CASE out.kind = "panic" -> Unwind(s2, s.phase, out.val)
          [] out.kind = "err"   -> Resume(s2, s.phase, out.val)
          [] OTHER -> IF s2.list = <<>> THEN Resume(s2, s.phase, Nil) ELSE s2

\* StepAdviceList as it would be if the loop went on after a handler's error
\* and returned the error of the last handler
StepAdviceListGoingOn(s) ==
    IF s.ctxDone
    THEN Resume(Log(s, [NoEvent EXCEPT !.ev = "cancelled", !.ph = s.phase]),
                s.phase, "context canceled")
    ELSE
        LET advice == Head(s.list)
            s1 == Log(s, [NoEvent EXCEPT !.ev = "handler", !.ph = s.phase,
                                         !.id = advice.id, !.h = advice.Handler,
                                         !.val = HandlerReads(advice.Handler, s.c)])
            s2 == [s1 EXCEPT !.c = HandlerApply(advice.Handler, s1.c),
                             !.list = Tail(@)]
            out == HandlerReturn(advice.Handler)
        IN  CASE out.kind = "panic" -> Unwind(s2, s.phase, out.val)
              [] out.kind = "err" /\ s2.list = <<>> -> Resume(s2, s.phase, out.val)
              [] OTHER -> IF s2.list = <<>> THEN Resume(s2, s.phase, Nil) ELSE s2

\* StepAdviceList as it would be if the loop returned nil as soon as a
\* handler left the skip flag set
StepAdviceListStoppingOnSkip(s) ==
    IF s.ctxDone
    THEN Resume(Log(s, [NoEvent EXCEPT !.ev = "cancelled", !.ph = s.phase]),
                s.phase, "context canceled")
    ELSE
        LET advice == Head(s.list)
            s1 == Log(s, [NoEvent EXCEPT !.ev = "handler", !.ph = s.phase,
                                         !.id = advice.id, !.h = advice.Handler,
                                         !.val = HandlerReads(advice.Handler, s.c)])
            s2 == [s1 EXCEPT !.c = HandlerApply(advice.Handler, s1.c),
                             !.list = Tail(@)]
            out == HandlerReturn(advice.Handler)
        IN  CASE out.kind = "panic" -> Unwind(s2, s.phase, out.val)
              [] out.kind = "err"   -> Resume(s2, s.phase, out.val)
              [] OTHER -> IF s2.list = <<>> \/ s2.c.Skipped
                          THEN Resume(s2, s.phase, Nil) ELSE s2

\* one iteration of the loop of executeAdviceList
StepAdviceList(s) ==
    IF s.ctxDone
    THEN Resume(Log(s, [NoEvent EXCEPT !.ev = "cancelled", !.ph = s.phase]),
                s.phase, "context canceled")
    ELSE
        LET advice == Head(s.list)
            s1 == Log(s, [NoEvent EXCEPT !.ev = "handler", !.ph = s.phase,
                                         !.id = advice.id, !.h = advice.Handler,
                                         !.val = HandlerReads(advice.Handler, s.c)])
            s2 == [s1 EXCEPT !.c = HandlerApply(advice.Handler, s1.c),
                             !.list = Tail(@)]
            out == HandlerReturn(advice.Handler)
        IN  CASE out.kind = "panic" -> Unwind(s2, s.phase, out.val)
              [] out.kind = "err"   -> Resume(s2, s.phase, out.val)
              [] OTHER -> IF s2.list = <<>> THEN Resume(s2, s.phase, Nil) ELSE s2

\* StartPhase as it would be if the wrapper ran the advice the chain held
\* when the function was wrapped (none, right after registration) instead of
\* reading the chain in every call
StartPhaseAsWrapped(s, ph, bucket, sorted) ==
    Resume(Log(s, [NoEvent EXCEPT !.ev = "phase", !.ph = ph]), ph, Nil)

\* Execute<ph>: snapshot of the bucket, then executeAdviceList up to its loop,
\* sorted being the snapshot as sort.Slice left it
StartPhase(s, ph, bucket, sorted) ==
    LET s1 == Log(s, [NoEvent EXCEPT !.ev = "phase", !.ph = ph, !.ids = Ids(sorted)])
    IN
    IF Len(bucket) = 0 THEN Resume(s1, ph, Nil)
    ELSE [s1 EXCEPT !.pc = "run", !.phase = ph, !.list = sorted]

\* CheckAround as it would be if the engine tested c.Skipped also when the
\* chain has no Around advice
CheckAroundTestingSkipped(s, ac) ==
    IF Len(ac.around) > 0
    THEN Log([s EXCEPT !.pc = "around"], [NoEvent EXCEPT !.ev = "hasAround", !.val = "true"])
    ELSE IF s.c.Skipped
    THEN AfterSkip(Log(s, [NoEvent EXCEPT !.ev = "hasAround", !.val = "false"]))
    ELSE Log([s EXCEPT !.pc = "target"], [NoEvent EXCEPT !.ev = "hasAround", !.val = "false"])

\* if chain.HasAround() { ExecuteAround ... } else the target
CheckAround(s, ac) ==
    IF Len(ac.around) > 0
    THEN Log([s EXCEPT !.pc = "around"], [NoEvent EXCEPT !.ev = "hasAround", !.val = "true"])
    ELSE Log([s EXCEPT !.pc = "target"], [NoEvent EXCEPT !.ev = "hasAround", !.val = "false"])

\* Recover as it would be if the deferred function re-raised the panic
\* without running AfterThrowing
RecoverWithoutAfterThrowing(s) ==
    IF s.panicking # Nil
    THEN Log([s EXCEPT !.r = s.panicking, !.c.PanicValue = s.panicking,
                       !.pc = "deferAfter"],
             [NoEvent EXCEPT !.ev = "recover", !.val = s.panicking])
    ELSE [s EXCEPT !.pc = "deferAfter"]

\* the deferred function that recovers
Recover(s) ==
    IF s.panicking # Nil
    THEN Log([s EXCEPT !.r = s.panicking, !.panicking = Nil,
                       !.c.PanicValue = s.panicking, !.pc = "afterThrowing"],
             [NoEvent EXCEPT !.ev = "recover", !.val = s.panicking])
    ELSE [s EXCEPT !.pc = "deferAfter"]

\* Thunk as it would be without `c.Error = err` (as in the wrappers of
\* functions that return no error)
ThunkWithoutError(s) ==
    LET out == Fn(s.fn, s.arg)
        s1 == Log(s, [NoEvent EXCEPT !.ev = "target"])
    IN  IF out.panic # Nil THEN Unwind(s1, "Target", out.panic)
        ELSE AfterTarget([s1 EXCEPT !.result = out.res, !.err = out.err,
                            !.c = SetResult(s1.c, 0, out.res)])

\* Thunk as it would be if the closure declared result and err anew
\* (result, err := fn(...)) instead of assigning the wrapper's variables
ThunkShadowingResult(s) ==
    LET out == Fn(s.fn, s.arg)
        s1 == Log(s, [NoEvent EXCEPT !.ev = "target"])
    IN  IF out.panic # Nil THEN Unwind(s1, "Target", out.panic)
        ELSE AfterTarget([s1 EXCEPT
                            !.c = [SetResult(s1.c, 0, out.res) EXCEPT !.Error = out.err]])

\* the closure the wrapper hands to the engine, run with Go's defers pending
Thunk(s) ==
    LET out == Fn(s.fn, s.arg)
        s1 == Log(s, [NoEvent EXCEPT !.ev = "target"])
    IN  IF out.panic # Nil THEN Unwind(s1, "Target", out.panic)
        ELSE IF s.wrap = "Wrap1ECtx"
        THEN AfterTarget([s1 EXCEPT !.err = out.err, !.c.Error = out.err])
        ELSE AfterTarget([s1 EXCEPT !.result = out.res, !.err = out.err,
                            !.c = [SetResult(s1.c, 0, out.res) EXCEPT !.Error = out.err]])

\* the path without a chain as it would be if the engine raised the error of
\* the lookup instead of calling the target
ThunkUnregisteredRaising(s) ==
    Finish([s EXCEPT !.panicking = GetAdviceChain(<<>>, s.key).err])

\* the same closure on the path without a chain: no deferred function
ThunkUnregistered(s) ==
    LET out == Fn(s.fn, s.arg)
        s1 == Log(s, [NoEvent EXCEPT !.ev = "target"])
    IN  IF out.panic # Nil THEN Finish([s1 EXCEPT !.panicking = out.panic])
        ELSE IF s.wrap = "Wrap1ECtx"
        THEN Finish([s1 EXCEPT !.err = out.err, !.c.Error = out.err])
        ELSE Finish([s1 EXCEPT !.result = out.res, !.err = out.err,
                       !.c = [SetResult(s1.c, 0, out.res) EXCEPT !.Error = out.err]])

---------------------------------------------------------------------------
(* Actions *)

Init ==
    /\ entries = <<>>
    /\ chains = <<>>
    /\ inv = [p \in Procs |-> IdleInv]

\* Register as it would be if it gave a key the chain object made first
\* instead of a new one
RegisterReusingChain(name) ==
    LET err == RegisterErr(entries, name) IN
    /\ IF err = Nil
       THEN IF chains = <<>>
            THEN /\ chains' = Append(chains, NewAdviceChain)
                 /\ entries' = entries @@ (name :> Len(chains) + 1)
            ELSE /\ entries' = entries @@ (name :> 1)
                 /\ UNCHANGED chains
       ELSE UNCHANGED <<entries, chains>>
    /\ UNCHANGED inv

Register(name) ==
    LET err == RegisterErr(entries, name) IN
    /\ IF err = Nil
       THEN /\ chains' = Append(chains, NewAdviceChain)
            /\ entries' = entries @@ (name :> Len(chains) + 1)
       ELSE UNCHANGED <<entries, chains>>
    /\ UNCHANGED inv

\* Registry.AddAdvice, taken while the chain holds fewer than limit advice
AddAdviceWithin(limit, funcKey, type, priority, handler) ==
    LET err == AddAdviceErr(entries, funcKey) IN
    /\ err = Nil => Count(chains[entries[funcKey]]) < limit
    /\ IF err = Nil
       THEN LET i == entries[funcKey]
                advice == [Type |-> type, Priority |-> priority, Handler |-> handler,
                           id |-> Count(chains[i]) + 1]
            IN chains' = [chains EXCEPT ![i] = Add(@, advice)]
       ELSE UNCHANGED chains
    /\ UNCHANGED <<entries, inv>>

AddAdvice(funcKey, type, priority, handler) ==
    AddAdviceWithin(MaxAdvice, funcKey, type, priority, handler)

\* the caller calls the function that wrapper wrap returned for key and fn
Called(wrap, key, a, kind) ==
    [IdleInv EXCEPT !.pc = "lookup", !.key = key, !.arg = a, !.fn = kind, !.wrap = wrap]

CallVia(wrap, p, key, a, kind) ==
    /\ inv[p].pc = "idle"
    /\ inv' = [inv EXCEPT ![p] = Called(wrap, key, a, kind)]
    /\ UNCHANGED <<entries, chains>>

\* the caller calls the wrapped function
Call(p, key, a, kind) == CallVia("Wrap1RECtx", p, key, a, kind)

\* the caller's context.Context is cancelled
Cancel(p) ==
    /\ inv[p].pc \notin {"idle", "done"}
    /\ ~inv[p].ctxDone
    /\ inv' = [inv EXCEPT ![p].ctxDone = TRUE]
    /\ UNCHANGED <<entries, chains>>

\* Lookup as it would be if the engine took its Context from a pool that
\* hands out the Context of a call still in progress
LookupReusingContext(p) ==
    /\ inv[p].pc = "lookup"
    /\ LET got == GetAdviceChain(entries, inv[p].key)
           busy == {q \in DOMAIN inv : q # p /\ inv[q].pc \notin {"idle", "lookup", "done"}}
           c == IF busy = {} THEN NewContextWithContext(inv[p].key, <<inv[p].arg>>)
                ELSE inv[CHOOSE q \in busy : TRUE].c
       IN inv' = [inv EXCEPT ![p] =
                    IF got.err # Nil
                    THEN [@ EXCEPT !.pc = "fast", !.c = c]
                    ELSE [@ EXCEPT !.pc = "before", !.c = c, !.chain = got.chain]]
    /\ UNCHANGED <<entries, chains>>

Lookup(p) ==
    /\ inv[p].pc = "lookup"
    /\ LET got == GetAdviceChain(entries, inv[p].key)
           c == NewContextWithContext(inv[p].key, <<inv[p].arg>>)
       IN inv' = [inv EXCEPT ![p] =
                    IF got.err # Nil
                    THEN [@ EXCEPT !.pc = "fast", !.c = c]
                    ELSE [@ EXCEPT !.pc = "before", !.c = c, !.chain = got.chain]]
    /\ UNCHANGED <<entries, chains>>

TargetUnregistered(p) ==
    /\ inv[p].pc = "fast"
    /\ inv' = [inv EXCEPT ![p] = ThunkUnregistered(@)]
    /\ UNCHANGED <<entries, chains>>

ExecuteBefore(p) ==
    /\ inv[p].pc = "before"
    /\ \E sorted \in SortSlice(chains[inv[p].chain].before) :
          inv' = [inv EXCEPT ![p] =
                    StartPhase(@, Before, chains[@.chain].before, sorted)]
    /\ UNCHANGED <<entries, chains>>

HasAround(p) ==
    /\ inv[p].pc = "hasAround"
    /\ inv' = [inv EXCEPT ![p] = CheckAround(@, chains[@.chain])]
    /\ UNCHANGED <<entries, chains>>

ExecuteAround(p) ==
    /\ inv[p].pc = "around"
    /\ \E sorted \in SortSlice(chains[inv[p].chain].around) :
          inv' = [inv EXCEPT ![p] =
                    StartPhase(@, Around, chains[@.chain].around, sorted)]
    /\ UNCHANGED <<entries, chains>>

Target(p) ==
    /\ inv[p].pc = "target"
    /\ inv' = [inv EXCEPT ![p] = Thunk(@)]
    /\ UNCHANGED <<entries, chains>>

ExecuteAfterReturning(p) ==
    /\ inv[p].pc = "afterReturning"
    /\ \E sorted \in SortSlice(chains[inv[p].chain].afterReturning) :
          inv' = [inv EXCEPT ![p] =
                    StartPhase(@, AfterReturning, chains[@.chain].afterReturning, sorted)]
    /\ UNCHANGED <<entries, chains>>

DeferRecover(p) ==
    /\ inv[p].pc = "deferRecover"
    /\ inv' = [inv EXCEPT ![p] = Recover(@)]
    /\ UNCHANGED <<entries, chains>>

ExecuteAfterThrowing(p) ==
    /\ inv[p].pc = "afterThrowing"
    /\ \E sorted \in SortSlice(chains[inv[p].chain].afterThrowing) :
          inv' = [inv EXCEPT ![p] =
                    StartPhase(@, AfterThrowing, chains[@.chain].afterThrowing, sorted)]
    /\ UNCHANGED <<entries, chains>>

\* ExecuteAfter as it would be if the deferred function looked the key up
\* again instead of using the chain fetched at the start of the call
ExecuteAfterLookingUpAgain(p) ==
    /\ inv[p].pc = "deferAfter"
    /\ IF inv[p].key \in DOMAIN entries
       THEN \E sorted \in SortSlice(chains[entries[inv[p].key]].after) :
              inv' = [inv EXCEPT ![p] =
                        StartPhase(@, After, chains[entries[@.key]].after, sorted)]
       ELSE inv' = [inv EXCEPT ![p] = Finish(@)]
    /\ UNCHANGED <<entries, chains>>

ExecuteAfter(p) ==
    /\ inv[p].pc = "deferAfter"
    /\ \E sorted \in SortSlice(chains[inv[p].chain].after) :
          inv' = [inv EXCEPT ![p] =
                    StartPhase(@, After, chains[@.chain].after, sorted)]
    /\ UNCHANGED <<entries, chains>>

InvokeHandler(p) ==
    /\ inv[p].pc = "run"
    /\ inv' = [inv EXCEPT ![p] = StepAdviceList(@)]
    /\ UNCHANGED <<entries, chains>>

\* the caller has taken the outcome; the goroutine may call again
Return(p) ==
    /\ inv[p].pc = "done"
    /\ inv' = [inv EXCEPT ![p] = IdleInv]
    /\ UNCHANGED <<entries, chains>>

Next ==
    \/ \E k \in Keys : Register(k)
    \/ \E k \in Keys, t \in AdviceType, a \in AdviceInputs :
            AddAdvice(k, t, a.Priority, a.Handler)
    \/ \E p \in Procs, k \in Keys, a \in ArgValues, f \in FnKinds : Call(p, k, a, f)
    \/ \E p \in Procs : Cancel(p)
    \/ \E p \in Procs : Lookup(p)
    \/ \E p \in Procs : TargetUnregistered(p)
    \/ \E p \in Procs : ExecuteBefore(p)
    \/ \E p \in Procs : HasAround(p)
    \/ \E p \in Procs : ExecuteAround(p)
    \/ \E p \in Procs : Target(p)
    \/ \E p \in Procs : ExecuteAfterReturning(p)
    \/ \E p \in Procs : DeferRecover(p)
    \/ \E p \in Procs : ExecuteAfterThrowing(p)
    \/ \E p \in Procs : ExecuteAfter(p)
    \/ \E p \in Procs : InvokeHandler(p)
    \/ \E p \in Procs : Return(p)

Spec == Init /\ [][Next]_vars

---------------------------------------------------------------------------
(* Reading the history of an invocation *)

\* the invocation found a chain at lookup (its key was registered)
Registered(s) == s.chain # 0
Finished(s) == s.pc = "done"

PhaseStarts(tr, ph) == {i \in DOMAIN tr : tr[i].ev = "phase" /\ tr[i].ph = ph}
Ran(tr, ph) == PhaseStarts(tr, ph) # {}
RanOnce(tr, ph) == Cardinality(PhaseStarts(tr, ph)) = 1
HandlerCalls(tr, ph) == {i \in DOMAIN tr : tr[i].ev = "handler" /\ tr[i].ph = ph}
CallsOf(tr, ph, id) == {i \in HandlerCalls(tr, ph) : tr[i].id = id}
TargetCalls(tr) == {i \in DOMAIN tr : tr[i].ev = "target"}
Panics(tr, places) == {i \in DOMAIN tr : tr[i].ev = "panic" /\ tr[i].ph \in places}
AnyPanic(tr) == \E i \in DOMAIN tr : tr[i].ev = "panic"
Cancelled(tr, ph) == {i \in DOMAIN tr : tr[i].ev = "cancelled" /\ tr[i].ph = ph}
PhaseFailed(tr, ph) ==
    \E i \in DOMAIN tr : tr[i].ev = "end" /\ tr[i].ph = ph /\ tr[i].val # Nil

---------------------------------------------------------------------------
(* C1 *)

\* C1: in every invocation of a registered key, whatever its outcome (normal
\* return, application error, target panic, Before/Around error, skip), the
\* After phase is started exactly once, and after its start no other phase
\* starts, the target is not called and no handler of another phase is invoked.
C1_AfterOnceAndLast ==
    \A p \in Procs :
        LET s == inv[p]
            tr == s.trace
        IN  Registered(s) =>
              /\ Cardinality(PhaseStarts(tr, After)) <= 1
              /\ \A i \in PhaseStarts(tr, After) : \A j \in DOMAIN tr :
                    j > i => /\ tr[j].ev \notin {"phase", "target"}
                             /\ tr[j].ev = "handler" => tr[j].ph = After
              /\ Finished(s) => RanOnce(tr, After)

\* a target panic that went through AfterThrowing, then After, to the caller
C1_Witness ==
    \E p \in Procs :
        LET s == inv[p]
            tr == s.trace
        IN  /\ Registered(s) /\ Finished(s)
            /\ Panics(tr, {"Target"}) # {}
            /\ RanOnce(tr, After)
            /\ HandlerCalls(tr, After) # {}
            /\ s.outcome.kind = "panicked"

---------------------------------------------------------------------------
(* C2 *)

\* the After handler at position k of the snapshot was kept from running: a
\* handler ahead of it returned an error or panicked, or the token was found
\* cancelled when the turn of the k-th or of an earlier handler came
Blocked(tr, ids, k) ==
    \/ \E j \in 1..(k - 1) : \E i \in CallsOf(tr, After, ids[j]) :
            HandlerReturn(tr[i].h).kind # "nil"
    \/ \E ci \in Cancelled(tr, After) :
            Cardinality({i \in HandlerCalls(tr, After) : i < ci}) < k

\* C2 as stated: when the invocation of a registered key ends, every After
\* handler of the phase's snapshot has been invoked exactly once, whatever the
\* other handlers returned (taken here in the cases where the token was never
\* cancelled and no After handler panicked).
C2_Original ==
    \A p \in Procs :
        LET s == inv[p]
            tr == s.trace
        IN  (Registered(s) /\ Finished(s) /\ ~s.ctxDone /\ Panics(tr, {After}) = {}) =>
              /\ RanOnce(tr, After)
              /\ \A i \in PhaseStarts(tr, After) : \A k \in DOMAIN tr[i].ids :
                    Cardinality(CallsOf(tr, After, tr[i].ids[k])) = 1

\* C2 amended: when the invocation of a registered key ends, the After phase
\* has run once, every After handler of its snapshot has been invoked at most
\* once, and exactly once unless an After handler ahead of it returned an error
\* or panicked or the cancellation token was triggered when its turn came.
C2_AfterHandlersOnceUnlessStopped ==
    \A p \in Procs :
        LET s == inv[p]
            tr == s.trace
        IN  (Registered(s) /\ Finished(s)) =>
              /\ RanOnce(tr, After)
              /\ \A i \in PhaseStarts(tr, After) : \A k \in DOMAIN tr[i].ids :
                    /\ Cardinality(CallsOf(tr, After, tr[i].ids[k])) <= 1
                    /\ ~Blocked(tr, tr[i].ids, k) =>
                          Cardinality(CallsOf(tr, After, tr[i].ids[k])) = 1

\* two After handlers, both invoked, in an invocation that ends in a panic
C2_Witness ==
    \E p \in Procs :
        LET s == inv[p]
            tr == s.trace
        IN  /\ Registered(s) /\ Finished(s)
            /\ s.outcome.kind = "panicked"
            /\ \E i \in PhaseStarts(tr, After) :
                  /\ Len(tr[i].ids) = 2
                  /\ \A k \in 1..2 : Cardinality(CallsOf(tr, After, tr[i].ids[k])) = 1

---------------------------------------------------------------------------
(* C3 *)

\* a Before or Around handler was invoked and returned a non-nil error
GateHandlerFailed(tr) ==
    \E i \in HandlerCalls(tr, Before) \cup HandlerCalls(tr, Around) :
        HandlerReturn(tr[i].h).kind = "err"

\* C3: once a Before or Around handler has returned a non-nil error, the target
\* thunk is never invoked in that invocation and the invocation never returns
\* normally: it ends with a panic raised to the caller.
C3_GateErrorAbortsCall ==
    \A p \in Procs :
        LET s == inv[p]
            tr == s.trace
        IN  (Registered(s) /\ GateHandlerFailed(tr)) =>
              /\ TargetCalls(tr) = {}
              /\ s.outcome.kind # "returned"
              /\ Finished(s) => s.outcome.kind = "panicked"

\* an Around handler failed after a Before phase that passed; the call panicked
C3_Witness ==
    \E p \in Procs :
        LET s == inv[p]
            tr == s.trace
        IN  /\ Registered(s) /\ Finished(s)
            /\ \E i \in HandlerCalls(tr, Around) : HandlerReturn(tr[i].h).kind = "err"
            /\ HandlerCalls(tr, Before) # {}
            /\ s.outcome.kind = "panicked"
            /\ s.outcome.panic = "around advice failed: advice failed"

---------------------------------------------------------------------------
(* C4 *)

---------------------------------------------------------------------------
(* C5 *)

\* the order of events claimed for a target panic with value v
PanicProtocol(s, v) ==
    LET tr == s.trace IN
    /\ \E i, j, k \in DOMAIN tr :
          /\ i < j /\ j < k
          /\ tr[i].ev = "recover" /\ tr[i].val = v /\ tr[i].pv = v
          /\ tr[j].ev = "phase" /\ tr[j].ph = AfterThrowing /\ tr[j].pv = v
          /\ tr[k].ev = "phase" /\ tr[k].ph = After
    /\ \A h \in HandlerCalls(tr, AfterThrowing) : tr[h].pv = v
    /\ s.outcome.kind = "panicked"
    /\ s.outcome.panic = v

---------------------------------------------------------------------------
(* C6 *)

\* the engine reached the point where outcome advice is decided, with
\* Context.Error nil and no captured panic
DecidedClean(tr) ==
    \E i \in DOMAIN tr : tr[i].ev = "decide" /\ tr[i].err = Nil /\ tr[i].pv = Nil

\* C6: AfterReturning starts only right after a decision point (end of the
\* target thunk, or end of a skipping Around phase) at which Context.Error is
\* nil and no panic is captured, and an invocation that has ended ran
\* AfterReturning if and only if it passed such a decision point.
C6_AfterReturningIffClean ==
    \A p \in Procs :
        LET s == inv[p]
            tr == s.trace
        IN  Registered(s) =>
              /\ \A i \in PhaseStarts(tr, AfterReturning) :
                    /\ i > 1
                    /\ tr[i - 1].ev = "decide"
                    /\ tr[i - 1].err = Nil /\ tr[i - 1].pv = Nil
              /\ Finished(s) => (Ran(tr, AfterReturning) <=> DecidedClean(tr))

\* a skipping Around phase that left Context.Error set: no AfterReturning
C6_Witness ==
    \E p \in Procs :
        LET s == inv[p]
            tr == s.trace
        IN  /\ Registered(s) /\ Finished(s)
            /\ s.c.Skipped
            /\ TargetCalls(tr) = {}
            /\ \E i \in DOMAIN tr : tr[i].ev = "decide" /\ tr[i].err # Nil
            /\ ~Ran(tr, AfterReturning)

---------------------------------------------------------------------------
(* C7 *)

\* C7 as stated: an invocation that has ended ran AfterThrowing if and only if
\* a panic was raised by the target thunk or by the Before or Around phase (a
\* handler's panic, or the escalation of a handler's error).
C7_Original ==
    \A p \in Procs :
        LET s == inv[p]
            tr == s.trace
        IN  (Registered(s) /\ Finished(s)) =>
              (Ran(tr, AfterThrowing) <=> Panics(tr, {"Target", Before, Around}) # {})

---------------------------------------------------------------------------
(* C8 *)

\* C8 as stated: in no invocation have both the AfterReturning phase and the
\* AfterThrowing phase run, whatever the target and the handlers do.
C8_Original ==
    \A p \in Procs :
        LET tr == inv[p].trace
        IN  ~(Ran(tr, AfterReturning) /\ Ran(tr, AfterThrowing))

---------------------------------------------------------------------------
(* C9 *)

\* a handler that writes Context.Error
WritesError(h) == HandlerApply(h, NewContextWithContext("", <<>>)).Error # Nil

\* C9: when the target thunk returned the application error e, nothing
\* panicked and no handler invoked after the thunk wrote Context.Error, the
\* invocation ends with AfterReturning and AfterThrowing not run, After run
\* once with every After handler seeing Context.Error = e, and the wrapper
\* returning e.
C9_ApplicationError ==
    \A p \in Procs :
        LET s == inv[p]
            tr == s.trace
            e == Fn(s.fn, s.arg).err
        IN  (/\ Registered(s) /\ Finished(s)
             /\ TargetCalls(tr) # {} /\ e # Nil
             /\ ~AnyPanic(tr)
             /\ \A t \in TargetCalls(tr) : \A i \in DOMAIN tr :
                    (i > t /\ tr[i].ev = "handler") => ~WritesError(tr[i].h))
            =>
              /\ ~Ran(tr, AfterReturning)
              /\ ~Ran(tr, AfterThrowing)
              /\ RanOnce(tr, After)
              /\ \A i \in HandlerCalls(tr, After) : tr[i].err = e
              /\ s.outcome.kind = "returned"
              /\ s.outcome.err = e

\* a target error seen by two After handlers and returned by the wrapper
C9_Witness ==
    \E p \in Procs :
        LET s == inv[p]
            tr == s.trace
        IN  /\ Registered(s) /\ Finished(s)
            /\ s.fn = "err"
            /\ Cardinality(HandlerCalls(tr, After)) = 2
            /\ \A i \in HandlerCalls(tr, After) : tr[i].err = "target error"
            /\ s.outcome.kind = "returned"
            /\ s.outcome.err = "target error"

---------------------------------------------------------------------------
(* C10 *)

RECURSIVE Steps(_)
\* the phases and the target call of a history, in order
Steps(tr) ==
    IF tr = <<>> THEN <<>>
    ELSE LET e == Head(tr) IN
         IF e.ev = "phase" THEN <<e.ph>> \o Steps(Tail(tr))
         ELSE IF e.ev = "target" THEN <<"Target">> \o Steps(Tail(tr))
         ELSE Steps(Tail(tr))

\* the chain had Around advice when the engine asked HasAround
HadAround(tr) == \E i \in DOMAIN tr : tr[i].ev = "hasAround" /\ tr[i].val = "true"

ExpectedSteps(tr) ==
    IF HadAround(tr)
    THEN <<Before, Around, "Target", AfterReturning, After>>
    ELSE <<Before, "Target", AfterReturning, After>>

\* no handler returned an error, nothing panicked, the skip flag is not set
Undisturbed(s) ==
    /\ \A i \in DOMAIN s.trace :
          s.trace[i].ev = "handler" => HandlerReturn(s.trace[i].h).kind = "nil"
    /\ ~AnyPanic(s.trace)
    /\ ~s.c.Skipped

---------------------------------------------------------------------------
(* The priority order of one phase: Before advice that only returns nil, *)
(* added in every order of priorities, around calls that return normally *)

OrderPriorities == {0, 1, 2}

AddBefore(priority) == AddAdviceWithin(MaxHandlers, "F", Before, priority, "nop")

NextOrder ==
    \/ Register("F")
    \/ \E priority \in OrderPriorities : AddBefore(priority)
    \/ \E p \in Procs, a \in ArgValues : Call(p, "F", a, "ok")
    \/ \E p \in Procs : Lookup(p)
    \/ \E p \in Procs : TargetUnregistered(p)
    \/ \E p \in Procs : ExecuteBefore(p)
    \/ \E p \in Procs : InvokeHandler(p)
    \/ \E p \in Procs : HasAround(p)
    \/ \E p \in Procs : Target(p)
    \/ \E p \in Procs : ExecuteAfterReturning(p)
    \/ \E p \in Procs : DeferRecover(p)
    \/ \E p \in Procs : ExecuteAfter(p)
    \/ \E p \in Procs : Return(p)

SpecOrder == Init /\ [][NextOrder]_vars

\* the Priority of the advice of phase ph that AddAdvice numbered id
PriorityOf(ac, ph, id) ==
    LET b == Bucket(ac, ph) IN b[CHOOSE k \in DOMAIN b : b[k].id = id].Priority

---------------------------------------------------------------------------
(* C11 *)

\* C11: of two handlers invoked in the same execution of a phase, the one
\* invoked first never has the lower Priority, in whatever order AddAdvice
\* received them and whichever way sort.Slice treated equal priorities.
C11_DescendingPriority ==
    \A p \in Procs :
        LET s == inv[p]
            tr == s.trace
        IN  Registered(s) =>
              \A ph \in AdviceType : \A i, j \in HandlerCalls(tr, ph) :
                 i < j => PriorityOf(chains[s.chain], ph, tr[i].id)
                            >= PriorityOf(chains[s.chain], ph, tr[j].id)

\* a phase of at least three handlers in which a handler added later, with a
\* higher priority, was invoked before one added earlier
C11_Witness ==
    \E p \in Procs :
        LET s == inv[p]
            tr == s.trace
        IN  /\ Registered(s) /\ Finished(s)
            /\ Cardinality(HandlerCalls(tr, Before)) >= 3
            /\ \E i, j \in HandlerCalls(tr, Before) :
                  /\ i < j /\ tr[i].id > tr[j].id
                  /\ PriorityOf(chains[s.chain], Before, tr[i].id)
                        > PriorityOf(chains[s.chain], Before, tr[j].id)

---------------------------------------------------------------------------
(* C12 *)

\* C12 as stated: of two handlers of equal Priority invoked in the same
\* execution of a phase, the one added first is invoked first, however many
\* handlers the phase has.
C12_Original ==
    \A p \in Procs :
        LET s == inv[p]
            tr == s.trace
        IN  Registered(s) =>
              \A ph \in AdviceType : \A i, j \in HandlerCalls(tr, ph) :
                 (/\ i < j
                  /\ PriorityOf(chains[s.chain], ph, tr[i].id)
                        = PriorityOf(chains[s.chain], ph, tr[j].id))
                 => tr[i].id < tr[j].id

---------------------------------------------------------------------------
(* Skipping: Around advice that sets Skipped and writes result slot 0 (a    *)
(* value of R, nil, or a value of another type), advice that clears the     *)
(* flag, writes Error or PanicValue or fails, and later advice that         *)
(* rewrites slot 0                                                          *)

SkipInputs ==
    {[Type |-> Around, Priority |-> 1, Handler |-> "skip"],
     [Type |-> Around, Priority |-> 1, Handler |-> "skipNil"],
     [Type |-> Around, Priority |-> 1, Handler |-> "skipOther"],
     [Type |-> Around, Priority |-> 0, Handler |-> "unskip"],
     [Type |-> Around, Priority |-> 0, Handler |-> "setErr"],
     [Type |-> Around, Priority |-> 0, Handler |-> "setPanic"],
     [Type |-> Around, Priority |-> 0, Handler |-> "fail"],
     [Type |-> AfterReturning, Priority |-> 0, Handler |-> "overwrite"],
     [Type |-> AfterReturning, Priority |-> 0, Handler |-> "nop"],
     [Type |-> After, Priority |-> 0, Handler |-> "unskip"]}

NextSkip ==
    \/ \E k \in Keys : Register(k)
    \/ \E k \in Keys, x \in SkipInputs : AddAdvice(k, x.Type, x.Priority, x.Handler)
    \/ \E p \in Procs, k \in Keys, a \in ArgValues, f \in FnKinds : Call(p, k, a, f)
    \/ \E p \in Procs : Cancel(p)
    \/ \E p \in Procs : Lookup(p)
    \/ \E p \in Procs : TargetUnregistered(p)
    \/ \E p \in Procs : ExecuteBefore(p)
    \/ \E p \in Procs : HasAround(p)
    \/ \E p \in Procs : ExecuteAround(p)
    \/ \E p \in Procs : Target(p)
    \/ \E p \in Procs : ExecuteAfterReturning(p)
    \/ \E p \in Procs : DeferRecover(p)
    \/ \E p \in Procs : ExecuteAfterThrowing(p)
    \/ \E p \in Procs : ExecuteAfter(p)
    \/ \E p \in Procs : InvokeHandler(p)
    \/ \E p \in Procs : Return(p)

SpecSkip == Init /\ [][NextSkip]_vars

---------------------------------------------------------------------------
(* C13 *)

\* what a handler does to a fresh Context
Effect(h) == HandlerApply(h, NewContextWithContext("", <<>>))
\* a handler that sets the skip flag and writes result slot 0
Skips(h) == Effect(h).Skipped /\ Len(Effect(h).Results) > 0
SkipValue(h) == Effect(h).Results[1]
ClearsSkip(h) == ~HandlerApply(h, [NewContextWithContext("", <<>>) EXCEPT !.Skipped = TRUE]).Skipped
WritesResult(h) == Len(Effect(h).Results) > 0

\* the Around handlers of a history that set the skip flag and wrote slot 0
SkipCalls(tr) == {i \in HandlerCalls(tr, Around) : Skips(tr[i].h)}
LastSkip(tr) == CHOOSE i \in SkipCalls(tr) : \A j \in SkipCalls(tr) : j <= i

\* no handler invoked after event i cleared the flag or wrote slot 0
SkipKept(tr, i) ==
    \A j \in DOMAIN tr :
        (j > i /\ tr[j].ev = "handler") => ~ClearsSkip(tr[j].h) /\ ~WritesResult(tr[j].h)

\* C13 as stated: when an Around handler has set the skip flag and written a
\* value into result slot 0 (and nothing cleared the flag or rewrote the slot
\* afterwards), the target thunk is not executed and the wrapper returns the
\* value written, never the default value of the result type.
C13_Original ==
    \A p \in Procs :
        LET s == inv[p]
            tr == s.trace
        IN  (/\ Registered(s) /\ Finished(s) /\ SkipCalls(tr) # {}
             /\ SkipValue(tr[LastSkip(tr)].h) # Nil
             /\ SkipKept(tr, LastSkip(tr)))
            =>
              /\ TargetCalls(tr) = {}
              /\ s.outcome.kind = "returned" =>
                    s.outcome.res = SkipValue(tr[LastSkip(tr)].h)

\* C13 amended: when an Around handler has set the skip flag and written v
\* into result slot 0, and no handler invoked after it clears the flag or
\* rewrites the slot, the target thunk is not executed and a wrapper that
\* returns gives v if v is a non-nil value of the result type R, and the
\* default value of R if v is nil or of another type.
C13_SkipReturnsWrittenValue ==
    \A p \in Procs :
        LET s == inv[p]
            tr == s.trace
        IN  (/\ Registered(s) /\ Finished(s) /\ SkipCalls(tr) # {}
             /\ SkipKept(tr, LastSkip(tr)))
            =>
              LET v == SkipValue(tr[LastSkip(tr)].h) IN
              /\ TargetCalls(tr) = {}
              /\ s.outcome.kind = "returned" =>
                    s.outcome.res = IF v # Nil /\ AssertR(v) THEN v ELSE ZeroR

\* the caching case: Around wrote "cached", the thunk did not run, the
\* AfterReturning phase ran and the caller got "cached"
C13_Witness ==
    \E p \in Procs :
        LET s == inv[p]
            tr == s.trace
        IN  /\ Registered(s) /\ Finished(s) /\ SkipCalls(tr) # {}
            /\ SkipKept(tr, LastSkip(tr))
            /\ TargetCalls(tr) = {}
            /\ HandlerCalls(tr, AfterReturning) # {}
            /\ s.outcome.kind = "returned"
            /\ s.outcome.res = "cached"

---------------------------------------------------------------------------
(* C14 *)

RECURSIVE SkippedAfter(_, _, _)
\* the skip flag after the handlers of the first n events of a history, from
\* what each handler invoked does to the flag it finds
SkippedAfter(tr, n, flag) ==
    IF n = 0 THEN flag
    ELSE LET before == SkippedAfter(tr, n - 1, flag) IN
         IF tr[n].ev = "handler"
         THEN HandlerApply(tr[n].h, [NewContextWithContext("", <<>>)
                                        EXCEPT !.Skipped = before]).Skipped
         ELSE before

\* the Around phase ended without error at event e, leaving the flag set
SkippingAround(tr, e) ==
    /\ tr[e].ev = "end" /\ tr[e].ph = Around /\ tr[e].val = Nil
    /\ SkippedAfter(tr, e, FALSE)

\* C14: when the Around phase has ended without error with the skip flag set,
\* the target thunk is never invoked in that invocation; AfterReturning runs,
\* after that point, if and only if Context.Error is nil and no panic value is
\* recorded at that point; and After runs once, with no other phase after it.
C14_SkipProtocol ==
    \A p \in Procs :
        LET s == inv[p]
            tr == s.trace
        IN  Registered(s) =>
              \A e \in DOMAIN tr : SkippingAround(tr, e) =>
                 /\ TargetCalls(tr) = {}
                 /\ \A i \in PhaseStarts(tr, AfterReturning) :
                       i > e /\ tr[e].err = Nil /\ tr[e].pv = Nil
                 /\ Finished(s) =>
                       /\ Ran(tr, AfterReturning) <=> (tr[e].err = Nil /\ tr[e].pv = Nil)
                       /\ RanOnce(tr, After)
                       /\ \A i \in PhaseStarts(tr, After) : \A j \in DOMAIN tr :
                             j > i => tr[j].ev \notin {"phase", "target"}

\* a skip with a panic value recorded by an Around handler: no target, no
\* AfterReturning, After run, and the caller gets the value Around wrote
C14_Witness ==
    \E p \in Procs :
        LET s == inv[p]
            tr == s.trace
        IN  /\ Registered(s) /\ Finished(s)
            /\ \E e \in DOMAIN tr : SkippingAround(tr, e) /\ tr[e].pv # Nil
            /\ ~Ran(tr, AfterReturning)
            /\ Ran(tr, After)
            /\ s.outcome.res = "cached"

---------------------------------------------------------------------------
(* Errors written by advice: handlers of every phase that write or clear    *)
(* Context.Error, under the wrapper of a function that returns (R, error)   *)
(* and under the wrapper of a function that returns only an error           *)

ErrorInputs ==
    {[Type |-> Before, Priority |-> 0, Handler |-> "setErr"],
     [Type |-> Around, Priority |-> 0, Handler |-> "setErr"],
     [Type |-> AfterReturning, Priority |-> 0, Handler |-> "setErr"],
     [Type |-> AfterThrowing, Priority |-> 0, Handler |-> "setErr"],
     [Type |-> After, Priority |-> 0, Handler |-> "setErr"],
     [Type |-> After, Priority |-> 0, Handler |-> "clearErr"]}

NextError ==
    \/ \E k \in Keys : Register(k)
    \/ \E k \in Keys, x \in ErrorInputs : AddAdvice(k, x.Type, x.Priority, x.Handler)
    \/ \E w \in Wrappers, p \in Procs, k \in Keys, a \in ArgValues, f \in FnKinds :
            CallVia(w, p, k, a, f)
    \/ \E p \in Procs : Cancel(p)
    \/ \E p \in Procs : Lookup(p)
    \/ \E p \in Procs : TargetUnregistered(p)
    \/ \E p \in Procs : ExecuteBefore(p)
    \/ \E p \in Procs : HasAround(p)
    \/ \E p \in Procs : ExecuteAround(p)
    \/ \E p \in Procs : Target(p)
    \/ \E p \in Procs : ExecuteAfterReturning(p)
    \/ \E p \in Procs : DeferRecover(p)
    \/ \E p \in Procs : ExecuteAfterThrowing(p)
    \/ \E p \in Procs : ExecuteAfter(p)
    \/ \E p \in Procs : InvokeHandler(p)
    \/ \E p \in Procs : Return(p)

SpecError == Init /\ [][NextError]_vars

\* the handler invocations that came after the target thunk returned
AfterTargetCalls(tr) ==
    {i \in DOMAIN tr : tr[i].ev = "handler" /\ \E t \in TargetCalls(tr) : t < i}

---------------------------------------------------------------------------
(* C15 *)

\* C15 as stated, for either wrapper: when a handler invoked after the target
\* thunk has set Context.Error to a non-nil e2 that is still there when the
\* engine returns, the wrapper returns e2 and not the thunk's error.
C15_Original ==
    \A p \in Procs :
        LET s == inv[p]
            tr == s.trace
        IN  (/\ Registered(s) /\ Finished(s) /\ s.outcome.kind = "returned"
             /\ \E i \in AfterTargetCalls(tr) : WritesError(tr[i].h)
             /\ s.c.Error # Nil)
            => s.outcome.err = s.c.Error

---------------------------------------------------------------------------
(* C16 *)

\* a handler that sets Context.Error to nil
ClearsError(h) ==
    HandlerApply(h, [NewContextWithContext("", <<>>) EXCEPT !.Error = "e"]).Error = Nil

\* C16 as stated: when the target thunk has returned a non-nil error and a
\* handler invoked afterwards has set Context.Error to nil, leaving it nil
\* when the engine returns, the wrapper returns a nil error.
C16_Original ==
    \A p \in Procs :
        LET s == inv[p]
            tr == s.trace
        IN  (/\ Registered(s) /\ Finished(s) /\ s.outcome.kind = "returned"
             /\ TargetCalls(tr) # {} /\ Fn(s.fn, s.arg).err # Nil
             /\ \E i \in AfterTargetCalls(tr) : ClearsError(tr[i].h)
             /\ s.c.Error = Nil)
            => s.outcome.err = Nil

---------------------------------------------------------------------------
(* The effect of an observer handler's error, by comparison: the same calls *)
(* on key "F", configured freely, on key "N", configured like F but with    *)
(* every failing observer handler returning nil, and on key "T", configured *)
(* like N but without the handlers that F's failing handler keeps from      *)
(* running.  Advice is added between the calls; one caller per key, one     *)
(* after the other.                                                         *)

FrameProcs == {"g1", "g2", "g3"}
FrameKey == [g1 |-> "F", g2 |-> "N", g3 |-> "T"]
Observers == {After, AfterReturning, AfterThrowing}

FrameInputs ==
    {[Type |-> After, Priority |-> 0, Handler |-> "fail"],
     [Type |-> After, Priority |-> 1, Handler |-> "fail"],
     [Type |-> After, Priority |-> 0, Handler |-> "setErr"],
     [Type |-> After, Priority |-> 0, Handler |-> "clearErr"],
     [Type |-> AfterReturning, Priority |-> 0, Handler |-> "fail"],
     [Type |-> AfterReturning, Priority |-> 0, Handler |-> "setErr"],
     [Type |-> AfterReturning, Priority |-> 0, Handler |-> "overwrite"],
     [Type |-> AfterThrowing, Priority |-> 0, Handler |-> "fail"],
     [Type |-> AfterThrowing, Priority |-> 0, Handler |-> "setErr"],
     [Type |-> AfterThrowing, Priority |-> 0, Handler |-> "panic"],
     [Type |-> Around, Priority |-> 1, Handler |-> "skip"]}

Fails(advice) == HandlerReturn(advice.Handler).kind = "err"

\* the same advice with a handler that does the same and returns nil
NilTwin(advice) ==
    IF advice.Type \in Observers /\ Fails(advice)
    THEN [advice EXCEPT !.Handler = "nop"]
    ELSE advice

RECURSIVE UpToFailure(_)
\* a sorted list up to and including its first failing handler
UpToFailure(sorted) ==
    IF sorted = <<>> THEN <<>>
    ELSE IF Fails(Head(sorted)) THEN <<Head(sorted)>>
    ELSE <<Head(sorted)>> \o UpToFailure(Tail(sorted))

NilTwins(list) == [i \in DOMAIN list |-> NilTwin(list[i])]

NilChain(ac) ==
    [ac EXCEPT !.after = NilTwins(@), !.afterReturning = NilTwins(@),
               !.afterThrowing = NilTwins(@)]

TruncatedChain(ac) ==
    [ac EXCEPT !.after = NilTwins(UpToFailure(InsertionSort(<<>>, @))),
               !.afterReturning = NilTwins(UpToFailure(InsertionSort(<<>>, @))),
               !.afterThrowing = NilTwins(UpToFailure(InsertionSort(<<>>, @)))]

AllIdle == \A p \in FrameProcs : inv[p].pc = "idle"
AllDone == \A p \in FrameProcs : inv[p].pc = "done"

\* the callers run one after the other
Turn(p) ==
    CASE p = "g1" -> TRUE
      [] p = "g2" -> inv["g1"].pc = "done"
      [] p = "g3" -> inv["g2"].pc = "done"

InitFrame ==
    /\ entries = [k \in {"F", "N", "T"} |-> CASE k = "F" -> 1 [] k = "N" -> 2 [] k = "T" -> 3]
    /\ chains = <<NewAdviceChain, NewAdviceChain, NewAdviceChain>>
    /\ inv = [p \in FrameProcs |-> IdleInv]

\* AddAdvice on F, and the matching configuration of N and T
AddTwin(x) ==
    /\ AllIdle
    /\ Count(chains[1]) < MaxAdvice
    /\ LET f == Add(chains[1], [Type |-> x.Type, Priority |-> x.Priority,
                                Handler |-> x.Handler, id |-> Count(chains[1]) + 1])
       IN chains' = <<f, NilChain(f), TruncatedChain(f)>>
    /\ UNCHANGED <<entries, inv>>

\* the three callers make the same call, each on its key
CallAll(wrap, a, kind) ==
    /\ AllIdle
    /\ inv' = [p \in FrameProcs |-> Called(wrap, FrameKey[p], a, kind)]
    /\ UNCHANGED <<entries, chains>>

ReturnAll ==
    /\ AllDone
    /\ inv' = [p \in FrameProcs |-> IdleInv]
    /\ UNCHANGED <<entries, chains>>

NextFrame ==
    \/ \E x \in FrameInputs : AddTwin(x)
    \/ \E w \in Wrappers, a \in ArgValues, f \in FnKinds : CallAll(w, a, f)
    \/ \E p \in FrameProcs : Turn(p) /\ Lookup(p)
    \/ \E p \in FrameProcs : Turn(p) /\ ExecuteBefore(p)
    \/ \E p \in FrameProcs : Turn(p) /\ HasAround(p)
    \/ \E p \in FrameProcs : Turn(p) /\ ExecuteAround(p)
    \/ \E p \in FrameProcs : Turn(p) /\ Target(p)
    \/ \E p \in FrameProcs : Turn(p) /\ ExecuteAfterReturning(p)
    \/ \E p \in FrameProcs : Turn(p) /\ DeferRecover(p)
    \/ \E p \in FrameProcs : Turn(p) /\ ExecuteAfterThrowing(p)
    \/ \E p \in FrameProcs : Turn(p) /\ ExecuteAfter(p)
    \/ \E p \in FrameProcs : Turn(p) /\ InvokeHandler(p)
    \/ ReturnAll

SpecFrame == InitFrame /\ [][NextFrame]_vars

---------------------------------------------------------------------------
(* C17 *)

\* C17 as stated: the call on F ends as the call on N does, where every
\* failing After, AfterReturning or AfterThrowing handler returns nil instead:
\* the same result and error, or the same panic value.
C17_Original == AllDone => inv["g1"].outcome = inv["g2"].outcome

\* C17 amended: the error an After, AfterReturning or AfterThrowing handler
\* returns is discarded, and the call on F ends as the call on T does, where
\* that handler returns nil and the handlers behind it in its phase are
\* absent: the same result and error, or the same panic value.
C17_ObserverErrorDiscarded == AllDone => inv["g1"].outcome = inv["g3"].outcome

\* a call on F in which an After handler failed ahead of another After
\* handler, which was not invoked, and that returned what the call on T did
C17_Witness ==
    /\ AllDone
    /\ LET tr == inv["g1"].trace IN
       /\ \E i \in HandlerCalls(tr, After) : HandlerReturn(tr[i].h).kind = "err"
       /\ \E i \in PhaseStarts(tr, After) :
             Len(tr[i].ids) > Cardinality(HandlerCalls(tr, After))
    /\ inv["g1"].outcome.kind = "returned"
    /\ inv["g1"].outcome = inv["g3"].outcome
    /\ inv["g1"].outcome # inv["g2"].outcome

---------------------------------------------------------------------------
(* C18 *)

\* a handler that changes some Context it is given
Modifies(h) ==
    \E c \in {NewContextWithContext("", <<>>),
              [NewContextWithContext("", <<>>) EXCEPT !.Error = "e"],
              [NewContextWithContext("", <<>>) EXCEPT !.Skipped = TRUE]} :
        HandlerApply(h, c) # c

ObserverAdvice(ac) ==
    {ac.after[i] : i \in DOMAIN ac.after}
        \cup {ac.afterReturning[i] : i \in DOMAIN ac.afterReturning}
        \cup {ac.afterThrowing[i] : i \in DOMAIN ac.afterThrowing}

\* no Before and no Around advice, and observer handlers that leave the
\* Context as it is
ObserverOnly(ac) ==
    /\ ac.before = <<>> /\ ac.around = <<>>
    /\ \A advice \in ObserverAdvice(ac) : ~Modifies(advice.Handler)

\* what the caller of the function itself, not wrapped, observes
Unwrapped(kind, a) ==
    LET out == Fn(kind, a) IN
    IF out.panic # Nil
    THEN [kind |-> "panicked", res |-> Nil, err |-> Nil, panic |-> out.panic]
    ELSE [kind |-> "returned", res |-> out.res, err |-> out.err, panic |-> Nil]

---------------------------------------------------------------------------
(* Metadata: handlers that store, replace or delete the value of key        *)
(* "userId", store under another key, and read "userId"                     *)

MetaInputs ==
    {[Type |-> Before, Priority |-> 0, Handler |-> "putUser"],
     [Type |-> Around, Priority |-> 0, Handler |-> "putUser2"],
     [Type |-> Around, Priority |-> 0, Handler |-> "putOther"],
     [Type |-> Around, Priority |-> 0, Handler |-> "delUser"],
     [Type |-> Around, Priority |-> 0, Handler |-> "getUser"],
     [Type |-> AfterReturning, Priority |-> 0, Handler |-> "putUser2"],
     [Type |-> AfterReturning, Priority |-> 0, Handler |-> "getUser"],
     [Type |-> AfterThrowing, Priority |-> 0, Handler |-> "getUser"],
     [Type |-> After, Priority |-> 0, Handler |-> "getUser"]}

NextMeta ==
    \/ \E k \in Keys : Register(k)
    \/ \E k \in Keys, x \in MetaInputs : AddAdvice(k, x.Type, x.Priority, x.Handler)
    \/ \E p \in Procs, k \in Keys, a \in ArgValues, f \in FnKinds : Call(p, k, a, f)
    \/ \E p \in Procs : Cancel(p)
    \/ \E p \in Procs : Lookup(p)
    \/ \E p \in Procs : TargetUnregistered(p)
    \/ \E p \in Procs : ExecuteBefore(p)
    \/ \E p \in Procs : HasAround(p)
    \/ \E p \in Procs : ExecuteAround(p)
    \/ \E p \in Procs : Target(p)
    \/ \E p \in Procs : ExecuteAfterReturning(p)
    \/ \E p \in Procs : DeferRecover(p)
    \/ \E p \in Procs : ExecuteAfterThrowing(p)
    \/ \E p \in Procs : ExecuteAfter(p)
    \/ \E p \in Procs : InvokeHandler(p)
    \/ \E p \in Procs : Return(p)

SpecMeta == Init /\ [][NextMeta]_vars

---------------------------------------------------------------------------
(* C19 *)

MetaKeys == {"userId", "requestId"}
MetaValues == {"user_123", "user_456", "req_456"}

\* a handler that stores v under key k
Stores(h, k, v) == MetaWrite(h) = [key |-> k, val |-> v]

\* a handler that stores under k or deletes k
TouchesKey(h, k) == MetaWrite(h).key = k \/ MetaDelete(h) = k

\* a handler that reads key k
ReadsKey(h, k) == MetaRead(h) = k

\* C19: when a handler has stored v under key k and a handler of a later
\* phase of the same invocation reads k, with no handler invoked in between
\* storing under k or deleting k, the value read is v.
C19_MetadataVisibleLater ==
    \A p \in Procs :
        LET tr == inv[p].trace
        IN  \A i, j \in DOMAIN tr : \A k \in MetaKeys : \A v \in MetaValues :
              (/\ i < j /\ tr[i].ev = "handler" /\ tr[j].ev = "handler"
               /\ tr[i].ph # tr[j].ph
               /\ Stores(tr[i].h, k, v) /\ ReadsKey(tr[j].h, k)
               /\ \A x \in (i + 1)..(j - 1) :
                      tr[x].ev = "handler" => ~TouchesKey(tr[x].h, k))
              => tr[j].val = v

\* the value stored by a Before handler, read by an After handler after the
\* target panicked
C19_Witness ==
    \E p \in Procs :
        LET s == inv[p]
            tr == s.trace
        IN  /\ Finished(s) /\ s.outcome.kind = "panicked"
            /\ \E i \in HandlerCalls(tr, Before) : Stores(tr[i].h, "userId", "user_123")
            /\ \E j \in HandlerCalls(tr, After) :
                  ReadsKey(tr[j].h, "userId") /\ tr[j].val = "user_123"

---------------------------------------------------------------------------
(* Concurrent callers: two goroutines call the same wrapped function, each  *)
(* with its own argument, while advice is being added; the callbacks use    *)
(* the argument they find in the Context                                    *)

RaceProcs == {"g1", "g2"}
RaceArg == [g1 |-> "a", g2 |-> "b"]

RaceInputs ==
    {[Type |-> Before, Priority |-> 0, Handler |-> "tagArg"],
     [Type |-> Around, Priority |-> 1, Handler |-> "skipArg"],
     [Type |-> Around, Priority |-> 0, Handler |-> "getArg"],
     [Type |-> AfterThrowing, Priority |-> 0, Handler |-> "getArg"],
     [Type |-> After, Priority |-> 0, Handler |-> "getArg"]}

InitRace ==
    /\ entries = <<>>
    /\ chains = <<>>
    /\ inv = [p \in RaceProcs |-> IdleInv]

NextRace ==
    \/ \E k \in Keys : Register(k)
    \/ \E k \in Keys, x \in RaceInputs : AddAdvice(k, x.Type, x.Priority, x.Handler)
    \/ \E p \in RaceProcs, k \in Keys, f \in FnKinds : Call(p, k, RaceArg[p], f)
    \/ \E p \in RaceProcs : Lookup(p)
    \/ \E p \in RaceProcs : TargetUnregistered(p)
    \/ \E p \in RaceProcs : ExecuteBefore(p)
    \/ \E p \in RaceProcs : HasAround(p)
    \/ \E p \in RaceProcs : ExecuteAround(p)
    \/ \E p \in RaceProcs : Target(p)
    \/ \E p \in RaceProcs : ExecuteAfterReturning(p)
    \/ \E p \in RaceProcs : DeferRecover(p)
    \/ \E p \in RaceProcs : ExecuteAfterThrowing(p)
    \/ \E p \in RaceProcs : ExecuteAfter(p)
    \/ \E p \in RaceProcs : InvokeHandler(p)
    \/ \E p \in RaceProcs : Return(p)

SpecRace == InitRace /\ [][NextRace]_vars

---------------------------------------------------------------------------
(* C20 *)

InFlight(s) == s.pc \notin {"idle", "lookup"}

\* the values an invocation with argument a can put into its Context
OwnResults(a) == {"fresh:" \o a, "cached:" \o a, ZeroR}

\* C20: whatever the interleaving of the two callers, the Context of each
\* invocation holds that invocation's argument and only values made from it
\* (results, the metadata its handlers stored and read back), and a caller
\* that gets a result gets the one made from its own argument: the value
\* Around wrote when the call was skipped, the target's value otherwise.
C20_NoCrossTalk ==
    \A p \in RaceProcs :
        LET s == inv[p]
            tr == s.trace
        IN  InFlight(s) =>
              /\ s.c.FunctionName = s.key
              /\ s.c.Args = <<s.arg>>
              /\ \A i \in DOMAIN s.c.Results : s.c.Results[i] \in OwnResults(s.arg)
              /\ GetMetadataVal(s.c, "arg").val \in {Nil, s.arg}
              /\ \A i \in DOMAIN tr :
                    (tr[i].ev = "handler" /\ MetaRead(tr[i].h) # Nil) =>
                        tr[i].val \in {Nil, s.arg}
              /\ (Finished(s) /\ s.outcome.kind = "returned") =>
                    s.outcome.res = IF s.c.Skipped THEN "cached:" \o s.arg
                                    ELSE Fn(s.fn, s.arg).res

\* the two calls overlap: g1 has returned its own fresh value after its After
\* handler read back the argument its Before handler stored, while g2 is in
\* its After phase with its own argument and its own result in its Context
C20_Witness ==
    /\ Finished(inv["g1"])
    /\ inv["g1"].outcome.kind = "returned" /\ inv["g1"].outcome.res = "fresh:a"
    /\ \E i \in DOMAIN inv["g1"].trace :
          /\ inv["g1"].trace[i].ev = "handler"
          /\ inv["g1"].trace[i].h = "getArg"
          /\ inv["g1"].trace[i].val = "a"
    /\ inv["g2"].pc = "run" /\ inv["g2"].phase = After
    /\ GetMetadataVal(inv["g2"].c, "arg").val = "b"
    /\ GetResult(inv["g2"].c, 0) = "fresh:b"

---------------------------------------------------------------------------
(* C21 *)

\* C21: a call whose key had no chain at lookup runs the target exactly once
\* and nothing else (no phase, no handler, no cancellation check), and its
\* caller observes what the caller of the function itself would: the same
\* result and error, or the target's own panic.
C21_UnregisteredRunsTargetOnly ==
    \A p \in Procs :
        LET s == inv[p]
            tr == s.trace
        IN  (Finished(s) /\ ~Registered(s)) =>
              /\ Cardinality(TargetCalls(tr)) = 1
              /\ \A i \in DOMAIN tr : tr[i].ev = "target"
              /\ s.outcome = Unwrapped(s.fn, s.arg)

\* a call of an unregistered key, cancelled meanwhile, that returned the
\* target's error
C21_Witness ==
    \E p \in Procs :
        LET s == inv[p]
        IN  /\ Finished(s) /\ ~Registered(s)
            /\ s.key \notin DOMAIN entries
            /\ s.ctxDone
            /\ s.outcome = [kind |-> "returned", res |-> ZeroR, err |-> "target error",
                            panic |-> Nil]

---------------------------------------------------------------------------
(* The Registry under concurrent callers: two goroutines call its           *)
(* operations on the keys "", "A" and "B".  Every operation takes           *)
(* registry.mu (Lock or RLock), runs its statements and unlocks on return;  *)
(* AddAdvice calls chain.Add, which takes the chain's own mu, while it      *)
(* still holds registry.mu.  An operation keeps the registry as it was when *)
(* it took the lock, and what it is about to return, until it unlocks.      *)

MaxChains == 2

RegProcs == {"g1", "g2"}
RegKeys == {"", "A", "B"}
RegOps == {"Register", "RegisterOrGet", "AddAdvice", "GetAdviceChain",
           "IsRegistered", "Unregister", "Clear", "Count"}
RegAdvice == [Type |-> Before, Priority |-> 100, Handler |-> "nop"]

\* the operations that take registry.mu.RLock(); the others take Lock()
Mode(op) == IF op \in {"GetAdviceChain", "IsRegistered", "Count"} THEN "R" ELSE "W"

EmptyName == "function name cannot be empty"

\* the registry: the entries map and the chains it points to
RegState == [entries |-> entries, chains |-> chains]
NoReg == [entries |-> <<>>, chains |-> <<>>]

\* what an operation hands to its caller
NoRet == [err |-> Nil, chain |-> 0, ok |-> FALSE, n |-> 0, panic |-> Nil]

RegIdle ==
    [pc        |-> "idle",
     op        |-> "",
     key       |-> "",
     holds     |-> "",       \* how this goroutine holds registry.mu: "", "R", "W"
     chainHeld |-> 0,        \* the chain whose mu this goroutine holds
     found     |-> 0,        \* chain, exists := registry.entries[funcKey]
     ret       |-> NoRet,
     pre       |-> NoReg]    \* the registry when the operation took the lock

InitRegistry ==
    /\ entries = <<>>
    /\ chains = <<>>
    /\ inv = [p \in RegProcs |-> RegIdle]

\* registry.entries[name] = chain
Put(reg, name, chain) ==
    [k \in DOMAIN reg \cup {name} |-> IF k = name THEN chain ELSE reg[k]]

\* delete as it would be if it emptied the map
DeleteEvery(reg, name) == <<>>

\* delete(registry.entries, name)
Delete(reg, name) == [k \in DOMAIN reg \ {name} |-> reg[k]]

\* the map lookup as it would be if it never found an entry
ExistsNever(reg, name) == FALSE

\* _, exists := registry.entries[name]
Exists(reg, name) == name \in DOMAIN reg

\* a goroutine calls an operation of the registry
RegBegin(p, op, key) ==
    /\ inv[p].pc = "idle"
    /\ op \in {"Register", "RegisterOrGet"} => Len(chains) < MaxChains
    /\ op = "AddAdvice" => \A i \in DOMAIN chains : Count(chains[i]) < MaxAdvice
    /\ op \in {"Clear", "Count"} => key = ""
    /\ inv' = [inv EXCEPT ![p] = [@ EXCEPT !.pc = "lock", !.op = op, !.key = key]]
    /\ UNCHANGED <<entries, chains>>

\* sync.RWMutex as it would be if Lock and RLock never waited
MuFreeAlways(p, mode) == TRUE

\* registry.mu can be taken by p: nobody else holds it, or only readers do
\* and p wants to read
MuFree(p, mode) ==
    \A q \in RegProcs \ {p} :
        inv[q].holds = "" \/ (mode = "R" /\ inv[q].holds = "R")

\* registry.mu.Lock() / registry.mu.RLock() returns
RegLock(p) ==
    /\ inv[p].pc = "lock"
    /\ MuFree(p, Mode(inv[p].op))
    /\ inv' = [inv EXCEPT ![p] =
                 [@ EXCEPT !.pc = IF inv[p].op \in {"Unregister", "Clear"} THEN "write" ELSE "check",
                           !.holds = Mode(inv[p].op),
                           !.pre = RegState]]
    /\ UNCHANGED <<entries, chains>>

\* the tests of the name and of registry.entries[name], and the returns that
\* follow them
RegCheck(p) ==
    LET s == inv[p]
        exists == Exists(entries, s.key)
        out(ret) == [s EXCEPT !.pc = "unlock", !.ret = ret]
    IN
    /\ s.pc = "check"
    /\ inv' = [inv EXCEPT ![p] =
         CASE s.op = "Register" ->
                IF RegisterErr(entries, s.key) # Nil
                THEN out([NoRet EXCEPT !.err = RegisterErr(entries, s.key)])
                ELSE [s EXCEPT !.pc = "write"]
           [] s.op = "RegisterOrGet" ->
                IF s.key = "" THEN out([NoRet EXCEPT !.panic = EmptyName])
                ELSE IF exists THEN out([NoRet EXCEPT !.chain = entries[s.key]])
                ELSE [s EXCEPT !.pc = "write"]
           [] s.op = "AddAdvice" ->
                IF AddAdviceErr(entries, s.key) # Nil
                THEN out([NoRet EXCEPT !.err = AddAdviceErr(entries, s.key)])
                ELSE [s EXCEPT !.pc = "chainLock", !.found = entries[s.key]]
           [] s.op = "GetAdviceChain" ->
                out([NoRet EXCEPT !.err = GetAdviceChain(entries, s.key).err,
                                  !.chain = GetAdviceChain(entries, s.key).chain])
           [] s.op = "IsRegistered" -> out([NoRet EXCEPT !.ok = exists])
           [] s.op = "Count" -> out([NoRet EXCEPT !.n = Cardinality(DOMAIN entries)])]
    /\ UNCHANGED <<entries, chains>>

\* the assignment to registry.entries
RegWrite(p) ==
    LET s == inv[p]
        new == Len(chains) + 1
    IN
    /\ s.pc = "write"
    /\ CASE s.op \in {"Register", "RegisterOrGet"} ->
              /\ chains' = Append(chains, NewAdviceChain)
              /\ entries' = Put(entries, s.key, new)
         [] s.op = "Unregister" ->
              /\ entries' = Delete(entries, s.key)
              /\ UNCHANGED chains
         [] s.op = "Clear" ->
              /\ entries' = <<>>
              /\ UNCHANGED chains
    /\ inv' = [inv EXCEPT ![p] =
                 [@ EXCEPT !.pc = "unlock",
                           !.ret = IF s.op = "RegisterOrGet"
                                   THEN [NoRet EXCEPT !.chain = new] ELSE NoRet]]

\* chain.Add: ac.mu.Lock() returns
ChainLock(p) ==
    /\ inv[p].pc = "chainLock"
    /\ \A q \in RegProcs : inv[q].chainHeld # inv[p].found
    /\ inv' = [inv EXCEPT ![p] = [@ EXCEPT !.pc = "append", !.chainHeld = inv[p].found]]
    /\ UNCHANGED <<entries, chains>>

\* chain.Add as it would be if the chains of all keys shared their buckets
ChainAppendShared(p) ==
    /\ inv[p].pc = "append"
    /\ chains' = [i \in DOMAIN chains |->
                    Add(chains[i], [Type |-> RegAdvice.Type, Priority |-> RegAdvice.Priority,
                                    Handler |-> RegAdvice.Handler,
                                    id |-> Count(chains[i]) + 1])]
    /\ inv' = [inv EXCEPT ![p] = [@ EXCEPT !.pc = "unlock", !.chainHeld = 0]]
    /\ UNCHANGED entries

\* chain.Add: the append to the bucket of the advice's type, and the unlock
ChainAppend(p) ==
    /\ inv[p].pc = "append"
    /\ chains' = [chains EXCEPT ![inv[p].found] =
                    Add(@, [Type |-> RegAdvice.Type, Priority |-> RegAdvice.Priority,
                            Handler |-> RegAdvice.Handler, id |-> Count(@) + 1])]
    /\ inv' = [inv EXCEPT ![p] = [@ EXCEPT !.pc = "unlock", !.chainHeld = 0]]
    /\ UNCHANGED entries

\* the deferred registry.mu.Unlock() / RUnlock(), and the return
RegUnlock(p) ==
    /\ inv[p].pc = "unlock"
    /\ inv' = [inv EXCEPT ![p] = RegIdle]
    /\ UNCHANGED <<entries, chains>>

NextRegistry ==
    \/ \E p \in RegProcs, op \in RegOps, k \in RegKeys : RegBegin(p, op, k)
    \/ \E p \in RegProcs : RegLock(p)
    \/ \E p \in RegProcs : RegCheck(p)
    \/ \E p \in RegProcs : RegWrite(p)
    \/ \E p \in RegProcs : ChainLock(p)
    \/ \E p \in RegProcs : ChainAppend(p)
    \/ \E p \in RegProcs : RegUnlock(p)

SpecRegistry == InitRegistry /\ [][NextRegistry]_vars

\* goroutine p has run the statements of op and is about to unlock and return
Did(p, op) == inv[p].pc = "unlock" /\ inv[p].op = op

\* the operation failed: it returned an error
Failed(p) == inv[p].ret.err # Nil

\* the advice of the chain of key k in registry state r
ChainOf(r, k) == r.chains[r.entries[k]]

---------------------------------------------------------------------------
(* C22 *)

\* C22: a Register of the empty key or of a key that was present when it
\* took the lock returns an error, and a Register that returns an error has
\* left the registry as it was: the same keys, each with the same chain and
\* the same advice in it.
C22_RegisterFailsUnchanged ==
    \A p \in RegProcs :
        LET s == inv[p] IN
        Did(p, "Register") =>
            /\ (s.key = "" \/ s.key \in DOMAIN s.pre.entries) => Failed(p)
            /\ Failed(p) => RegState = s.pre

\* a second Register of a key whose chain holds advice has failed
C22_Witness ==
    \E p \in RegProcs :
        /\ Did(p, "Register") /\ Failed(p)
        /\ inv[p].key \in DOMAIN entries
        /\ Count(ChainOf(RegState, inv[p].key)) > 0

---------------------------------------------------------------------------
(* C23 *)

\* C23: an AddAdvice of the empty key or of a key that was absent when it
\* took the lock returns an error; one that returns an error has left the
\* registry as it was (no new entry, no chain changed); one that returns nil
\* has left the entries as they were, has made the advice count of the key's
\* chain one larger, and has left every other chain as it was.
C23_AddAdviceEffect ==
    \A p \in RegProcs :
        LET s == inv[p] IN
        Did(p, "AddAdvice") =>
            /\ (s.key = "" \/ s.key \notin DOMAIN s.pre.entries) => Failed(p)
            /\ Failed(p) => RegState = s.pre
            /\ ~Failed(p) =>
                 /\ entries = s.pre.entries
                 /\ DOMAIN chains = DOMAIN s.pre.chains
                 /\ Count(ChainOf(RegState, s.key)) = Count(ChainOf(s.pre, s.key)) + 1
                 /\ \A i \in DOMAIN chains \ {entries[s.key]} : chains[i] = s.pre.chains[i]

\* an AddAdvice on "A" has succeeded while "B" is registered with its own
\* chain
C23_Witness ==
    \E p \in RegProcs :
        /\ Did(p, "AddAdvice") /\ ~Failed(p)
        /\ inv[p].key = "A"
        /\ "B" \in DOMAIN entries /\ entries["B"] # entries["A"]
        /\ Count(ChainOf(RegState, "A")) = 1

---------------------------------------------------------------------------
(* C24 *)

\* C24: Unregister(k) returns nothing and raises nothing; it leaves k absent,
\* every other key with the chain it had, no key added and no chain changed;
\* and when k was absent already it leaves the registry exactly as it was, so
\* that an Unregister(k) that finds what an Unregister(k) left changes nothing.
C24_UnregisterIdempotent ==
    \A p \in RegProcs :
        LET s == inv[p] IN
        Did(p, "Unregister") =>
            /\ s.ret = NoRet
            /\ s.key \notin DOMAIN entries
            /\ DOMAIN entries = DOMAIN s.pre.entries \ {s.key}
            /\ \A k \in DOMAIN entries : entries[k] = s.pre.entries[k]
            /\ chains = s.pre.chains
            /\ s.key \notin DOMAIN s.pre.entries => RegState = s.pre

\* an Unregister of the absent key "A", after an entry was removed earlier
\* (its chain is no longer reachable), next to a registered "B" whose chain
\* holds advice
C24_Witness ==
    \E p \in RegProcs :
        /\ Did(p, "Unregister")
        /\ inv[p].key = "A"
        /\ "A" \notin DOMAIN inv[p].pre.entries
        /\ \E i \in DOMAIN chains : i \notin {entries[k] : k \in DOMAIN entries}
        /\ "B" \in DOMAIN entries
        /\ Count(ChainOf(RegState, "B")) > 0

---------------------------------------------------------------------------
(* C25 *)

\* C25: RegisterOrGet never returns an error and panics exactly when the key
\* is empty, changing nothing then.  For a key that was present when it took
\* the lock it returns the chain of that entry, the one GetAdviceChain
\* returns and AddAdvice appends to, and changes nothing.  For an absent key
\* it returns a chain that did not exist before, empty, which is now the
\* key's entry, with every other entry and every other chain as it was.
C25_RegisterOrGet ==
    \A p \in RegProcs :
        LET s == inv[p]
            was == s.key \in DOMAIN s.pre.entries
        IN
        Did(p, "RegisterOrGet") =>
            /\ s.ret.err = Nil
            /\ (s.ret.panic # Nil) <=> (s.key = "")
            /\ s.key = "" => RegState = s.pre
            /\ (s.key # "" /\ was) =>
                 /\ s.ret.chain = s.pre.entries[s.key]
                 /\ RegState = s.pre
            /\ (s.key # "" /\ ~was) =>
                 /\ s.ret.chain \notin DOMAIN s.pre.chains
                 /\ chains[s.ret.chain] = NewAdviceChain
                 /\ entries = Put(s.pre.entries, s.key, s.ret.chain)
                 /\ \A i \in DOMAIN s.pre.chains : chains[i] = s.pre.chains[i]
            /\ s.key # "" =>
                 GetAdviceChain(entries, s.key) = [chain |-> s.ret.chain, err |-> Nil]

\* RegisterOrGet has returned the existing chain of a key, with the advice
\* added to it before
C25_Witness ==
    \E p \in RegProcs :
        /\ Did(p, "RegisterOrGet")
        /\ inv[p].key \in DOMAIN inv[p].pre.entries
        /\ inv[p].ret.chain = entries[inv[p].key]
        /\ Count(chains[inv[p].ret.chain]) > 0

---------------------------------------------------------------------------
(* C29 *)

\* an operation run alone, from its first statement to its return, on
\* registry r: the registry it leaves and what it returns
Sequential(r, op, key) ==
    LET same(ret) == [reg |-> r, ret |-> ret]
        new == Len(r.chains) + 1
        created == [entries |-> Put(r.entries, key, new),
                    chains |-> Append(r.chains, NewAdviceChain)]
    IN
    CASE op = "Register" ->
           IF RegisterErr(r.entries, key) # Nil
           THEN same([NoRet EXCEPT !.err = RegisterErr(r.entries, key)])
           ELSE [reg |-> created, ret |-> NoRet]
      [] op = "RegisterOrGet" ->
           IF key = "" THEN same([NoRet EXCEPT !.panic = EmptyName])
           ELSE IF key \in DOMAIN r.entries
           THEN same([NoRet EXCEPT !.chain = r.entries[key]])
           ELSE [reg |-> created, ret |-> [NoRet EXCEPT !.chain = new]]
      [] op = "AddAdvice" ->
           IF AddAdviceErr(r.entries, key) # Nil
           THEN same([NoRet EXCEPT !.err = AddAdviceErr(r.entries, key)])
           ELSE [reg |-> [r EXCEPT !.chains[r.entries[key]] =
                              Add(@, [Type |-> RegAdvice.Type,
                                      Priority |-> RegAdvice.Priority,
                                      Handler |-> RegAdvice.Handler,
                                      id |-> Count(@) + 1])],
                 ret |-> NoRet]
      [] op = "GetAdviceChain" ->
           same([NoRet EXCEPT !.err = GetAdviceChain(r.entries, key).err,
                              !.chain = GetAdviceChain(r.entries, key).chain])
      [] op = "IsRegistered" -> same([NoRet EXCEPT !.ok = key \in DOMAIN r.entries])
      [] op = "Unregister" -> [reg |-> [r EXCEPT !.entries = Delete(@, key)], ret |-> NoRet]
      [] op = "Clear" -> [reg |-> [r EXCEPT !.entries = <<>>], ret |-> NoRet]
      [] op = "Count" -> same([NoRet EXCEPT !.n = Cardinality(DOMAIN r.entries)])

\* C29: the operations of the two goroutines take effect one at a time, in
\* the order in which they take registry.mu: a goroutine that holds the lock
\* for writing holds it alone, and every operation that has run its
\* statements has returned, and left in the registry, exactly what it would
\* have if it had run alone on the registry it found when it took the lock.
C29_Linearizable ==
    /\ \A p \in RegProcs : \A q \in RegProcs \ {p} :
          inv[p].holds = "W" => inv[q].holds = ""
    /\ \A p \in RegProcs :
          inv[p].pc = "unlock" =>
              [reg |-> RegState, ret |-> inv[p].ret]
                  = Sequential(inv[p].pre, inv[p].op, inv[p].key)

\* a Register of the new key "B" has run while an Unregister of the existing
\* key "A" waits for the lock; "A" is still present
C29_Witness ==
    /\ Did("g1", "Register") /\ inv["g1"].key = "B" /\ ~Failed("g1")
    /\ inv["g2"].pc = "lock" /\ inv["g2"].op = "Unregister" /\ inv["g2"].key = "A"
    /\ DOMAIN entries = {"A", "B"}

---------------------------------------------------------------------------
(* C30 *)

\* goroutine p is inside Registry.AddAdvice, after its Lock() returned
InsideAddAdvice(p) ==
    inv[p].op = "AddAdvice" /\ inv[p].pc \in {"check", "chainLock", "append", "unlock"}

\* goroutine q is at the chain lookup of a call of the function wrapped for
\* key: registry.GetAdviceChain(key) is about to take the read lock
AtLookup(q, key) ==
    inv[q].op = "GetAdviceChain" /\ inv[q].pc = "lock" /\ inv[q].key = key

\* C30 as stated: while a goroutine is inside AddAdvice for one key, the chain
\* lookup of a call for another key can take the registry's lock and go on.
C30_Original ==
    \A p \in RegProcs : \A q \in RegProcs \ {p} :
        (InsideAddAdvice(p) /\ inv[p].key = "A" /\ AtLookup(q, "B")) =>
            MuFree(q, Mode("GetAdviceChain"))

---------------------------------------------------------------------------
(* C28 *)

\* C28: in every phase, the return of an error by a handler is followed at
\* once by the end of that phase execution with exactly that error: no
\* handler that comes after it in the sorted snapshot is invoked in it.
C28_ErrorStopsPhase ==
    \A p \in Procs :
        LET tr == inv[p].trace IN
        \A i \in DOMAIN tr :
            (tr[i].ev = "handler" /\ HandlerReturn(tr[i].h).kind = "err") =>
                /\ i + 1 \in DOMAIN tr
                /\ tr[i + 1].ev = "end"
                /\ tr[i + 1].ph = tr[i].ph
                /\ tr[i + 1].val = HandlerReturn(tr[i].h).val

\* a phase whose snapshot held two handlers has ended with the error of the
\* first, and the second was not invoked
C28_Witness ==
    \E p \in Procs :
        LET tr == inv[p].trace IN
        \E i \in DOMAIN tr :
            /\ tr[i].ev = "phase" /\ Len(tr[i].ids) = 2
            /\ i + 2 \in DOMAIN tr
            /\ tr[i + 1].ev = "handler" /\ tr[i + 1].id = tr[i].ids[1]
            /\ HandlerReturn(tr[i + 1].h).kind = "err"
            /\ tr[i + 2].ev = "end" /\ tr[i + 2].val = HandlerReturn(tr[i + 1].h).val
            /\ Finished(inv[p])
            /\ CallsOf(tr, tr[i].ph, tr[i].ids[2]) = {}

---------------------------------------------------------------------------
(* C27 *)

ContextCanceled == "context canceled"

\* goroutine p is in the loop of a phase, about to invoke a handler, and its
\* token is triggered; its next step finds it so
StopsAtCancellation(p) ==
    LET s == inv[p]
        n == Len(s.trace)
        tr2 == inv'[p].trace
    IN  (s.pc = "run" /\ s.ctxDone /\ inv'[p] # s) =>
            /\ Len(tr2) >= n + 2
            /\ tr2[n + 1].ev = "cancelled" /\ tr2[n + 1].ph = s.phase
            /\ tr2[n + 2].ev = "end" /\ tr2[n + 2].ph = s.phase
            /\ tr2[n + 2].val = ContextCanceled
            /\ \A j \in (n + 1)..Len(tr2) : tr2[j].ev # "handler"
            /\ inv'[p].c = s.c
            /\ inv'[p].list = <<>>

\* what the history of an invocation shows of a cancellation: no handler is
\* invoked after it, and one found in the Before phase leaves the target not
\* called and the call ending in the panic raised for the Before error
CancellationKept(s) ==
    LET tr == s.trace IN
    /\ \A ci \in DOMAIN tr : tr[ci].ev = "cancelled" =>
          \A j \in DOMAIN tr : j > ci => tr[j].ev # "handler"
    /\ Cancelled(tr, Before) # {} =>
          /\ TargetCalls(tr) = {}
          /\ Finished(s) =>
                s.outcome = [kind |-> "panicked", res |-> Nil, err |-> Nil,
                             panic |-> "before advice failed: " \o ContextCanceled]

---------------------------------------------------------------------------
(* Advice added late: one goroutine calls the wrapped function again and    *)
(* again while advice of every type is added, before, between and during    *)
(* the calls.  `started` keeps the advice the key's chain held when the     *)
(* call in progress began, and the advice it held when the first call of    *)
(* all began.                                                               *)

LateInputs ==
    {[Type |-> ty, Priority |-> 0, Handler |-> h] : ty \in AdviceType, h \in {"nop", "fail"}}

\* the advice of all buckets of a chain
AllAdvice(ac) ==
    {ac.before[i] : i \in DOMAIN ac.before}
        \cup {ac.around[i] : i \in DOMAIN ac.around}
        \cup ObserverAdvice(ac)

InitLate ==
    /\ entries = <<>>
    /\ chains = <<>>
    /\ inv = [p \in Procs \cup {"started"} |->
                IF p \in Procs THEN IdleInv ELSE [called |-> FALSE, first |-> {}, now |-> {}]]

\* the caller calls the wrapped function: every AddAdvice that has returned
\* by now has put its advice into the chain
CallLate(p, key, a, kind) ==
    /\ inv[p].pc = "idle"
    /\ LET held == IF key \in DOMAIN entries
                   THEN AllAdvice(chains[entries[key]]) ELSE {}
       IN inv' = [inv EXCEPT ![p] = Called("Wrap1RECtx", key, a, kind),
                             !["started"] = [called |-> TRUE,
                                             first |-> IF @.called THEN @.first ELSE held,
                                             now |-> held]]
    /\ UNCHANGED <<entries, chains>>

NextLate ==
    \/ \E k \in Keys : Register(k)
    \/ \E k \in Keys, x \in LateInputs : AddAdvice(k, x.Type, x.Priority, x.Handler)
    \/ \E p \in Procs, k \in Keys, a \in ArgValues, f \in FnKinds : CallLate(p, k, a, f)
    \/ \E p \in Procs : Cancel(p)
    \/ \E p \in Procs : Lookup(p)
    \/ \E p \in Procs : TargetUnregistered(p)
    \/ \E p \in Procs : ExecuteBefore(p)
    \/ \E p \in Procs : HasAround(p)
    \/ \E p \in Procs : ExecuteAround(p)
    \/ \E p \in Procs : Target(p)
    \/ \E p \in Procs : ExecuteAfterReturning(p)
    \/ \E p \in Procs : DeferRecover(p)
    \/ \E p \in Procs : ExecuteAfterThrowing(p)
    \/ \E p \in Procs : ExecuteAfter(p)
    \/ \E p \in Procs : InvokeHandler(p)
    \/ \E p \in Procs : Return(p)

SpecLate == InitLate /\ [][NextLate]_vars

---------------------------------------------------------------------------
(* C26 *)

\* the advice the chain held when the current call of p began
Started(p) == inv["started"].now

\* the advice among it that was added after the function had been called
Late(p) == inv["started"].now \ inv["started"].first

\* the execution of phase ph is over: it returned, or a handler panicked
PhaseOver(tr, ph) ==
    \E i \in DOMAIN tr : tr[i].ph = ph /\ tr[i].ev \in {"end", "panic"}

\* the handler at position k of the sorted list ids of phase ph was kept
\* from running: a handler ahead of it returned an error or panicked, or the
\* token was found cancelled when the turn of the k-th or an earlier one came
KeptFrom(tr, ph, ids, k) ==
    \/ \E j \in 1..(k - 1) : \E i \in CallsOf(tr, ph, ids[j]) :
            HandlerReturn(tr[i].h).kind # "nil"
    \/ \E ci \in Cancelled(tr, ph) :
            Cardinality({i \in HandlerCalls(tr, ph) : i < ci}) < k

\* C26 as stated: a finished call of a registered key has invoked every
\* advice that had been added when the call began.
C26_Original ==
    \A p \in Procs :
        LET s == inv[p] IN
        (Registered(s) /\ Finished(s)) =>
            \A x \in Started(p) : CallsOf(s.trace, x.Type, x.id) # {}

\* C26 amended: advice that had been added when a call began is in the sorted
\* list of its phase whenever that call runs the phase, Around advice makes
\* the call run the Around phase instead of going to the target directly,
\* and when the phase is over the advice has been invoked unless a handler
\* ahead of it in the list returned an error or panicked or the token was
\* found cancelled.
C26_LateAdviceListed ==
    \A p \in Procs :
        LET s == inv[p]
            tr == s.trace
        IN  Registered(s) =>
            \A x \in Started(p) :
                /\ \A i \in PhaseStarts(tr, x.Type) :
                      /\ \E k \in DOMAIN tr[i].ids : tr[i].ids[k] = x.id
                      /\ PhaseOver(tr, x.Type) =>
                            \/ CallsOf(tr, x.Type, x.id) # {}
                            \/ \E k \in DOMAIN tr[i].ids :
                                  tr[i].ids[k] = x.id /\ KeptFrom(tr, x.Type, tr[i].ids, k)
                /\ x.Type = Around =>
                      \A i \in DOMAIN tr : tr[i].ev = "hasAround" => tr[i].val = "true"

\* a later call of the function has invoked, after a Before handler that
\* was there from the first call on, a Before handler that was added after
\* the function had been called, and then the target
C26_Witness ==
    \E p \in Procs :
        LET s == inv[p]
            tr == s.trace
        IN  /\ Registered(s) /\ Finished(s)
            /\ Cardinality(Started(p)) = 2 /\ Cardinality(Late(p)) = 1
            /\ \A x \in Started(p) : x.Type = Before /\ CallsOf(tr, Before, x.id) # {}
            /\ TargetCalls(tr) # {}

---------------------------------------------------------------------------
(* The result slots of one Context: SetResult and GetResult called with      *)
(* every index from -1 up, in any order, on the Context as the calls before  *)
(* left it.  `last` keeps the last call, the Context it was made on and      *)
(* what it returned.                                                         *)

MaxIndex == 2

ResultValues == {Nil, "hello", "42"}

NoCall == [op |-> "", index |-> 0, value |-> Nil,
           before |-> NewContextWithContext("test", <<>>), got |-> Nil]

InitResults ==
    /\ entries = <<>>
    /\ chains = <<>>
    /\ inv = [c |-> NewContextWithContext("test", <<>>), last |-> NoCall]

CallSetResult(index, value) ==
    /\ inv' = [c |-> SetResult(inv.c, index, value),
               last |-> [op |-> "SetResult", index |-> index, value |-> value,
                         before |-> inv.c, got |-> Nil]]
    /\ UNCHANGED <<entries, chains>>

CallGetResult(index) ==
    /\ inv' = [c |-> inv.c,
               last |-> [op |-> "GetResult", index |-> index, value |-> Nil,
                         before |-> inv.c, got |-> GetResult(inv.c, index)]]
    /\ UNCHANGED <<entries, chains>>

NextResults ==
    \/ \E index \in -1..MaxIndex, value \in ResultValues : CallSetResult(index, value)
    \/ \E index \in -1..(MaxIndex + 1) : CallGetResult(index)

SpecResults == InitResults /\ [][NextResults]_vars

---------------------------------------------------------------------------
(* C31 *)

\* C31: SetResult(n, v) with n >= 0 leaves a result list as long as before,
\* or of length n+1 if it was shorter, with v in slot n, every other slot
\* that existed unchanged and every new slot below n nil, and touches nothing
\* else of the Context; with n < 0 it changes nothing.  GetResult(n) returns
\* nil for n < 0 and for n at or beyond the length, the slot otherwise.
C31_ResultSlots ==
    LET l == inv.last
        old == l.before.Results
        new == inv.c.Results
    IN
    /\ (l.op = "SetResult" /\ l.index < 0) => inv.c = l.before
    /\ (l.op = "SetResult" /\ l.index >= 0) =>
          /\ Len(new) = IF Len(old) < l.index + 1 THEN l.index + 1 ELSE Len(old)
          /\ new[l.index + 1] = l.value
          /\ \A i \in DOMAIN old : i # l.index + 1 => new[i] = old[i]
          /\ \A i \in (Len(old) + 1)..l.index : new[i] = Nil
          /\ inv.c = [l.before EXCEPT !.Results = new]
    /\ l.op = "GetResult" =>
          /\ inv.c = l.before
          /\ l.got = IF l.index < 0 \/ l.index >= Len(old) THEN Nil ELSE old[l.index + 1]

\* SetResult(2, v) on a Context holding one result: slot 0 kept, slot 1 a nil
\* placeholder, slot 2 set
C31_Witness ==
    /\ inv.last.op = "SetResult" /\ inv.last.index = 2 /\ inv.last.value = "42"
    /\ inv.last.before.Results = <<"hello">>
    /\ inv.c.Results = <<"hello", Nil, "42">>

---------------------------------------------------------------------------
(* Advice added while a phase runs: by another goroutine between two         *)
(* handlers, and by the handler "addSame", which adds a handler to the       *)
(* bucket of the phase it runs in (as long as the chain holds fewer than     *)
(* MaxAdvice advice).                                                        *)

SnapshotInputs ==
    {[Type |-> ty, Priority |-> 0, Handler |-> h] :
        ty \in AdviceType, h \in {"nop", "fail", "addSame"}}

\* one iteration of the loop of executeAdviceList, with what the handler does
\* to the registry
InvokeHandlerAdding(p) ==
    LET s == inv[p] IN
    /\ s.pc = "run"
    /\ inv' = [inv EXCEPT ![p] = StepAdviceList(@)]
    /\ IF /\ ~s.ctxDone
          /\ Head(s.list).Handler = "addSame"
          /\ AddAdviceErr(entries, s.key) = Nil
          /\ Count(chains[entries[s.key]]) < MaxAdvice
       THEN chains' = [chains EXCEPT ![entries[s.key]] =
                         Add(@, [Type |-> s.phase, Priority |-> 0, Handler |-> "nop",
                                 id |-> Count(@) + 1])]
       ELSE UNCHANGED chains
    /\ UNCHANGED entries

NextSnapshot ==
    \/ \E k \in Keys : Register(k)
    \/ \E k \in Keys, x \in SnapshotInputs : AddAdvice(k, x.Type, x.Priority, x.Handler)
    \/ \E p \in Procs, k \in Keys, a \in ArgValues, f \in FnKinds : Call(p, k, a, f)
    \/ \E p \in Procs : Cancel(p)
    \/ \E p \in Procs : Lookup(p)
    \/ \E p \in Procs : TargetUnregistered(p)
    \/ \E p \in Procs : ExecuteBefore(p)
    \/ \E p \in Procs : HasAround(p)
    \/ \E p \in Procs : ExecuteAround(p)
    \/ \E p \in Procs : Target(p)
    \/ \E p \in Procs : ExecuteAfterReturning(p)
    \/ \E p \in Procs : DeferRecover(p)
    \/ \E p \in Procs : ExecuteAfterThrowing(p)
    \/ \E p \in Procs : ExecuteAfter(p)
    \/ \E p \in Procs : InvokeHandlerAdding(p)
    \/ \E p \in Procs : Return(p)

SpecSnapshot == Init /\ [][NextSnapshot]_vars

---------------------------------------------------------------------------
(* C32 *)

\* the k-th handler event of phase ph in history tr
RECURSIVE NthCall(_, _, _)
NthCall(tr, ph, k) ==
    LET first == CHOOSE i \in HandlerCalls(tr, ph) : \A j \in HandlerCalls(tr, ph) : i <= j
    IN  IF k = 1 THEN tr[first]
        ELSE NthCall([i \in DOMAIN tr |-> IF i = first THEN NoEvent ELSE tr[i]], ph, k - 1)

\* the pc at which each phase is about to take its snapshot
PhaseAt(pc) ==
    CASE pc = "before"         -> Before
      [] pc = "around"         -> Around
      [] pc = "afterReturning" -> AfterReturning
      [] pc = "afterThrowing"  -> AfterThrowing
      [] pc = "deferAfter"     -> After
      [] OTHER                 -> ""

\* the handlers a phase execution has invoked are, in order, the first ones
\* of the snapshot it took when it started: none that was added since, none
\* skipped, none twice; and a phase that returned nil has invoked them all
SnapshotKept(s) ==
    LET tr == s.trace IN
    \A i \in DOMAIN tr : tr[i].ev = "phase" =>
        LET ph == tr[i].ph
            n == Cardinality(HandlerCalls(tr, ph))
        IN  /\ n <= Len(tr[i].ids)
            /\ \A k \in 1..n : NthCall(tr, ph, k).id = tr[i].ids[k]
            /\ (\E e \in DOMAIN tr : tr[e].ev = "end" /\ tr[e].ph = ph /\ tr[e].val = Nil)
                  => n = Len(tr[i].ids)

\* the step in which goroutine p starts a phase takes as its snapshot all the
\* advice the bucket holds at that moment, whenever and by whom it was added
SnapshotTaken(p) ==
    LET s == inv[p]
        n == Len(s.trace)
    IN  (PhaseAt(s.pc) # "" /\ inv'[p] # s /\ inv'[p].ctxDone = s.ctxDone) =>
            /\ Len(inv'[p].trace) > n
            /\ inv'[p].trace[n + 1].ev = "phase"
            /\ inv'[p].trace[n + 1].ph = PhaseAt(s.pc)
            /\ {inv'[p].trace[n + 1].ids[k] : k \in DOMAIN inv'[p].trace[n + 1].ids}
                  = {x.id : x \in {y \in AllAdvice(chains[s.chain]) : y.Type = PhaseAt(s.pc)}}

\* C32 as stated: as below, and every handler of the snapshot of a phase
\* execution that is over has been invoked by it (so that advice added during
\* one execution is invoked by the next).
C32_Original ==
    \A p \in Procs :
        LET s == inv[p]
            tr == s.trace
        IN  /\ SnapshotKept(s)
            /\ \A i \in DOMAIN tr : (tr[i].ev = "phase" /\ PhaseOver(tr, tr[i].ph)) =>
                  \A k \in DOMAIN tr[i].ids : CallsOf(tr, tr[i].ph, tr[i].ids[k]) # {}

\* C32 amended: a phase execution invokes handlers of the snapshot it took
\* at its start only, in the snapshot's order, none skipped and none twice,
\* so advice added to the bucket while it runs (concurrently or by one of its
\* handlers) is not invoked by it; the next execution of the phase has that
\* advice in its snapshot, and invokes it unless the phase stops before its
\* turn.
C32_SnapshotSemantics ==
    /\ [](\A p \in Procs : SnapshotKept(inv[p]))
    /\ [][\A p \in Procs : SnapshotTaken(p)]_vars

\* a Before phase that started with one handler, which added a second one to
\* the Before bucket, has returned nil without invoking the second
C32_Witness ==
    \E p \in Procs :
        LET s == inv[p]
            tr == s.trace
        IN  /\ Registered(s)
            /\ Len(tr) >= 3
            /\ tr[1].ev = "phase" /\ tr[1].ph = Before /\ Len(tr[1].ids) = 1
            /\ tr[2].ev = "handler" /\ tr[2].h = "addSame"
            /\ tr[3].ev = "end" /\ tr[3].val = Nil
            /\ Len(chains[s.chain].before) = 2
            /\ HandlerCalls(tr, Before) = {2}

---------------------------------------------------------------------------
(* C33 *)

\* the call got past its gates: HasAround was false, or the Around phase
\* returned nil
PastGates(tr) ==
    \/ \E i \in DOMAIN tr : tr[i].ev = "hasAround" /\ tr[i].val = "false"
    \/ \E e \in DOMAIN tr : tr[e].ev = "end" /\ tr[e].ph = Around /\ tr[e].val = Nil

\* C33: in a finished call that got past its gates the target thunk was not
\* called if and only if the chain had Around advice and the skip flag was
\* set when the Around phase returned; without Around advice the target is
\* called once whatever the flag, also when a Before handler set it.
C33_SkipNeedsAround ==
    \A p \in Procs :
        LET s == inv[p]
            tr == s.trace
        IN  (Registered(s) /\ Finished(s) /\ PastGates(tr)) =>
              /\ TargetCalls(tr) = {} <=> \E e \in DOMAIN tr : SkippingAround(tr, e)
              /\ ~HadAround(tr) => Cardinality(TargetCalls(tr)) = 1

\* a Before handler set the skip flag, the chain had no Around advice, and
\* the target ran with the flag still set
C33_Witness ==
    \E p \in Procs :
        LET s == inv[p]
            tr == s.trace
        IN  /\ Registered(s) /\ Finished(s)
            /\ \E i \in HandlerCalls(tr, Before) : tr[i].h = "skip"
            /\ ~HadAround(tr)
            /\ s.c.Skipped
            /\ Cardinality(TargetCalls(tr)) = 1

---------------------------------------------------------------------------
(* C34 *)

\* the event at which the Around phase of a history took its snapshot
AroundStart(tr) == CHOOSE i \in DOMAIN tr : tr[i].ev = "phase" /\ tr[i].ph = Around

\* the Around handler invoked at event i returned nil with the skip flag set,
\* and the snapshot of the phase holds handlers behind it
SkipSetMidPhase(tr, i) ==
    /\ tr[i].ev = "handler" /\ tr[i].ph = Around
    /\ HandlerReturn(tr[i].h).kind \notin {"err", "panic"}
    /\ SkippedAfter(tr, i, FALSE)
    /\ Cardinality({j \in HandlerCalls(tr, Around) : j <= i}) < Len(tr[AroundStart(tr)].ids)

\* C34: an Around handler that returns with the skip flag set does not end
\* the Around phase: the loop goes on to the next handler of the snapshot
\* (only a triggered cancellation token stops it there), and when the phase
\* has returned nil the target thunk runs if and only if the flag is not set
\* after the last Around handler, so a later handler that clears it makes the
\* target run.
C34_SkipDoesNotStopAround ==
    \A p \in Procs :
        LET s == inv[p]
            tr == s.trace
        IN  Registered(s) =>
              /\ \A i \in DOMAIN tr : SkipSetMidPhase(tr, i) =>
                    LET k == Cardinality({j \in HandlerCalls(tr, Around) : j <= i})
                    IN  IF i = Len(tr)
                        THEN s.pc = "run" /\ s.phase = Around
                                /\ Head(s.list).id = tr[AroundStart(tr)].ids[k + 1]
                        ELSE \/ tr[i + 1].ev = "cancelled" /\ tr[i + 1].ph = Around
                             \/ /\ tr[i + 1].ev = "handler" /\ tr[i + 1].ph = Around
                                /\ tr[i + 1].id = tr[AroundStart(tr)].ids[k + 1]
              /\ Finished(s) =>
                    \A e \in DOMAIN tr :
                        (tr[e].ev = "end" /\ tr[e].ph = Around /\ tr[e].val = Nil) =>
                            (Cardinality(TargetCalls(tr)) = 1 <=> ~SkippedAfter(tr, e, FALSE))

\* an Around handler set the flag, a lower-priority Around handler ran after
\* it and cleared the flag, and the target thunk ran
C34_Witness ==
    \E p \in Procs :
        LET s == inv[p]
            tr == s.trace
        IN  /\ Registered(s) /\ Finished(s)
            /\ \E i \in DOMAIN tr : \E j \in HandlerCalls(tr, Around) :
                  /\ SkipSetMidPhase(tr, i) /\ j > i
                  /\ tr[j].h = "unskip"
            /\ Cardinality(TargetCalls(tr)) = 1
            /\ s.outcome.kind = "returned"

---------------------------------------------------------------------------
(* C35 *)

\* a handler that wrote result slot 0 was invoked in phase ph
WroteSlot(tr, ph) == \E i \in HandlerCalls(tr, ph) : WritesResult(tr[i].h)

---------------------------------------------------------------------------
(* C36 *)

\* the cancellation check of a phase up to After fired before any After
\* handler was invoked: the token was triggered by the time the After phase
\* reached its first handler
CancelledBeforeAfter(tr) ==
    \E i \in DOMAIN tr :
        /\ tr[i].ev = "cancelled"
        /\ \A j \in HandlerCalls(tr, After) : j > i

\* the target thunk ran and no handler was invoked after it
NothingAfterTarget(tr) ==
    /\ TargetCalls(tr) # {}
    /\ \A t \in TargetCalls(tr) : \A j \in DOMAIN tr : tr[j].ev = "handler" => j < t

\* the outcome the engine has in hand when it enters its deferred After
OutcomeInHand(s) ==
    IF s.panicking # Nil
    THEN [kind |-> "panicked", res |-> Nil, err |-> Nil, panic |-> s.panicking]
    ELSE [kind |-> "returned", res |-> ResolveResult(s.c, s.result),
          err |-> ResolveError(s.c, s.err), panic |-> Nil]

\* the After phase of goroutine p finds the token triggered: the step ends
\* the call, invokes no handler, leaves the Context as it is and gives the
\* caller the outcome the engine had in hand
AfterCancelledStep(p) ==
    LET s == inv[p] IN
    (/\ s.pc = "run" /\ s.phase = After /\ s.ctxDone /\ inv'[p] # s)
    => /\ inv'[p].pc = "done"
       /\ HandlerCalls(inv'[p].trace, After) = HandlerCalls(s.trace, After)
       /\ inv'[p].c = s.c
       /\ inv'[p].outcome = OutcomeInHand(s)

---------------------------------------------------------------------------
(* C37 *)

\* the invocations of handlers that panic, in the phases given
HandlerPanics(tr, phases) ==
    {i \in DOMAIN tr : /\ tr[i].ev = "handler" /\ tr[i].ph \in phases
                       /\ HandlerReturn(tr[i].h).kind = "panic"}

\* C37: a finished call in which a handler of the Before, Around,
\* AfterReturning or AfterThrowing phase panicked has run the After phase
\* exactly once; and when an AfterThrowing handler panicked while the panic of
\* the target thunk was being handled (and no After handler panicked after
\* it), the caller gets the handler's panic value, not the target's.
C37_AfterOnceDespiteHandlerPanic ==
    \A p \in Procs :
        LET s == inv[p]
            tr == s.trace
        IN  (Registered(s) /\ Finished(s)) =>
              /\ HandlerPanics(tr, {Before, Around, AfterReturning, AfterThrowing}) # {}
                    => RanOnce(tr, After)
              /\ (/\ Panics(tr, {"Target"}) # {}
                  /\ HandlerPanics(tr, {AfterThrowing}) # {}
                  /\ HandlerPanics(tr, {After}) = {})
                    => /\ s.outcome.kind = "panicked"
                       /\ \E i \in HandlerPanics(tr, {AfterThrowing}) :
                             s.outcome.panic = HandlerReturn(tr[i].h).val
                       /\ s.outcome.panic # Fn(s.fn, s.arg).panic

\* the target panicked, an AfterThrowing handler panicked while that panic
\* was handled, After ran once and invoked its handler, and the caller got
\* the handler's panic value
C37_Witness ==
    \E p \in Procs :
        LET s == inv[p]
            tr == s.trace
        IN  /\ Registered(s) /\ Finished(s)
            /\ Panics(tr, {"Target"}) # {}
            /\ HandlerPanics(tr, {AfterThrowing}) # {}
            /\ RanOnce(tr, After)
            /\ HandlerCalls(tr, After) # {}
            /\ s.outcome.kind = "panicked"
            /\ s.outcome.panic = "handler panic"

---------------------------------------------------------------------------
(* Registration life cycle: keys are registered, given advice, unregistered *)
(* and registered again while wrapped functions are called.  Each registry  *)
(* operation is one step, taken under registry.mu; an Unregister or Clear   *)
(* notes in the history of every call that holds the removed chain that the *)
(* chain was removed under it.                                              *)

LifeKeys == {"F", "G"}

LifeInputs ==
    {[Type |-> t, Priority |-> 0, Handler |-> "nop"] : t \in {Before, Around, After}}

IsRegistered(reg, name) == name \in DOMAIN reg

\* Registry.Count
CountRegistered(reg) == Cardinality(DOMAIN reg)

GetAdviceCount(reg, heap, funcKey) ==
    IF funcKey \notin DOMAIN reg THEN 0 ELSE Count(heap[reg[funcKey]])

\* no call in progress, and no entry removed from the registry yet
InitLife ==
    /\ entries = <<>>
    /\ chains = <<>>
    /\ inv = [p \in Procs \cup {"removed"} |-> IF p \in Procs THEN IdleInv ELSE {}]

\* the entries of reg as pairs of key and chain
Pairs(reg, names) == {<<k, reg[k]>> : k \in names \cap DOMAIN reg}

\* the history after the entries in gone were deleted: which chain was
\* removed from which key, and which calls held it at that moment
Removed(gone) ==
    [p \in DOMAIN inv |->
        IF p \notin Procs THEN inv[p] \cup gone
        ELSE IF \E g \in gone : g[2] = inv[p].chain
        THEN Log(inv[p], [NoEvent EXCEPT !.ev = "unregistered"])
        ELSE inv[p]]

\* Register of a key while the heap has room for a new chain
RegisterFresh(name) ==
    /\ Len(chains) < MaxChains
    /\ Register(name)

Unregister(name) ==
    /\ entries' = Delete(entries, name)
    /\ inv' = Removed(Pairs(entries, {name}))
    /\ UNCHANGED chains

Clear ==
    /\ entries' = <<>>
    /\ inv' = Removed(Pairs(entries, DOMAIN entries))
    /\ UNCHANGED chains

NextLife ==
    \/ \E k \in LifeKeys : RegisterFresh(k)
    \/ \E k \in LifeKeys, x \in LifeInputs : AddAdvice(k, x.Type, x.Priority, x.Handler)
    \/ \E k \in LifeKeys : Unregister(k)
    \/ Clear
    \/ \E p \in Procs, k \in Keys, a \in ArgValues, f \in FnKinds : Call(p, k, a, f)
    \/ \E p \in Procs : Lookup(p)
    \/ \E p \in Procs : TargetUnregistered(p)
    \/ \E p \in Procs : ExecuteBefore(p)
    \/ \E p \in Procs : HasAround(p)
    \/ \E p \in Procs : ExecuteAround(p)
    \/ \E p \in Procs : Target(p)
    \/ \E p \in Procs : ExecuteAfterReturning(p)
    \/ \E p \in Procs : DeferRecover(p)
    \/ \E p \in Procs : ExecuteAfterThrowing(p)
    \/ \E p \in Procs : ExecuteAfter(p)
    \/ \E p \in Procs : InvokeHandler(p)
    \/ \E p \in Procs : Return(p)

SpecLife == InitLife /\ [][NextLife]_vars

---------------------------------------------------------------------------
(* C38 *)

\* the events at which the chain of a call was removed from the registry
RemovedAt(tr) == {i \in DOMAIN tr : tr[i].ev = "unregistered"}

\* the step in which goroutine p starts a phase takes its snapshot from the
\* chain the call fetched, whatever the registry holds for the key by then
FetchedChainUsed(p) ==
    LET s == inv[p]
        n == Len(s.trace)
    IN  (PhaseAt(s.pc) # "" /\ inv'[p].pc # s.pc) =>
            /\ inv'[p].chain = s.chain
            /\ inv'[p].trace[n + 1].ev = "phase"
            /\ inv'[p].trace[n + 1].ph = PhaseAt(s.pc)
            /\ {inv'[p].trace[n + 1].ids[k] : k \in DOMAIN inv'[p].trace[n + 1].ids}
                  = {x.id : x \in {y \in AllAdvice(chains[s.chain]) : y.Type = PhaseAt(s.pc)}}

\* the step that removes the chain of a call from the registry leaves the
\* chain object and the call as they are
ChainUntouched(p) ==
    LET s == inv[p] IN
    (Registered(s) /\ Len(s.trace) + 1 \in RemovedAt(inv'[p].trace)) =>
        /\ chains'[s.chain] = chains[s.chain]
        /\ inv'[p] = Log(s, [NoEvent EXCEPT !.ev = "unregistered"])

\* the step in which goroutine p looks its key up gives it the chain the
\* registry holds for the key at that moment, or the fast path if there is
\* none
LookupNow(p) ==
    LET s == inv[p] IN
    (s.pc = "lookup" /\ inv'[p].pc # s.pc) =>
        IF s.key \in DOMAIN entries
        THEN inv'[p].pc = "before" /\ inv'[p].chain = entries[s.key]
        ELSE inv'[p].pc = "fast" /\ inv'[p].chain = 0

\* the remaining phases of a call in the order of the engine: with n handlers
\* in a bucket the phase that returned nil invoked n handlers
RanFromFetched(s) ==
    LET tr == s.trace IN
    \A i \in DOMAIN tr : tr[i].ev = "phase" =>
        /\ \A j \in HandlerCalls(tr, tr[i].ph) :
              \E k \in DOMAIN tr[i].ids : tr[i].ids[k] = tr[j].id
        /\ (\E e \in DOMAIN tr : tr[e].ev = "end" /\ tr[e].ph = tr[i].ph /\ tr[e].val = Nil)
              => Cardinality(HandlerCalls(tr, tr[i].ph)) = Len(tr[i].ids)

\* C38: a call that has fetched its chain goes on with that chain when its
\* key is unregistered or the registry cleared under it: every phase it
\* starts afterwards takes its snapshot from the fetched chain and invokes
\* its handlers, After runs once, and the call ends as the same call does
\* with the key still registered; a call that looks the key up after the
\* Unregister gets no chain and runs the target alone.
C38_InFlightKeepsChain ==
    /\ [](\A p \in Procs :
            LET s == inv[p]
                tr == s.trace
            IN  /\ (Registered(s) /\ RemovedAt(tr) # {}) =>
                      /\ RanFromFetched(s)
                      /\ Finished(s) =>
                            /\ RanOnce(tr, After)
                            /\ s.outcome = Unwrapped(s.fn, s.arg)
                /\ (Finished(s) /\ ~Registered(s)) =>
                      /\ \A i \in DOMAIN tr : tr[i].ev = "target"
                      /\ Cardinality(TargetCalls(tr)) = 1)
    /\ [][\A p \in Procs : FetchedChainUsed(p) /\ LookupNow(p) /\ ChainUntouched(p)]_vars

\* the key of a call was unregistered after the call had fetched its chain
\* and before its After phase; the After phase invoked the handler of the
\* fetched chain, and the key is still unregistered when the call ends
C38_Witness ==
    \E p \in Procs :
        LET s == inv[p]
            tr == s.trace
        IN  /\ Registered(s) /\ Finished(s)
            /\ ~IsRegistered(entries, s.key)
            /\ \E m \in RemovedAt(tr) : \E i \in PhaseStarts(tr, After) :
                  \E j \in HandlerCalls(tr, After) : m < i /\ i < j
            /\ \E m \in RemovedAt(tr) : \E i \in HandlerCalls(tr, Before) : i < m

---------------------------------------------------------------------------
(* C40 *)

\* the chains removed from key k so far
RemovedFrom(k) == {g[2] : g \in {x \in inv["removed"] : x[1] = k}}

\* a Register of an absent key gives it a new chain object with no advice,
\* and leaves every other chain as it was
FreshChain(k) ==
    (~IsRegistered(entries, k) /\ RegisterFresh(k)) =>
        /\ IsRegistered(entries', k)
        /\ entries'[k] \notin DOMAIN chains
        /\ chains'[entries'[k]] = NewAdviceChain
        /\ GetAdviceCount(entries', chains', k) = 0
        /\ \A i \in DOMAIN chains : chains'[i] = chains[i]

\* the advice count of a registered key leaves 0 only by an AddAdvice to it
ZeroUntilAdded(k) ==
    (/\ IsRegistered(entries, k) /\ GetAdviceCount(entries, chains, k) = 0
     /\ IsRegistered(entries', k) /\ entries'[k] = entries[k]
     /\ GetAdviceCount(entries', chains', k) # 0)
    => \E x \in LifeInputs : AddAdvice(k, x.Type, x.Priority, x.Handler)

\* after Clear the registry has no entry
EmptyAfterClear ==
    Clear => /\ CountRegistered(entries') = 0
             /\ \A k \in LifeKeys : ~IsRegistered(entries', k)
             /\ \A k \in LifeKeys : GetAdviceCount(entries', chains', k) = 0

\* C40: a Register of a key that was unregistered gives the key a new chain
\* with no advice: GetAdviceCount of the key is 0 until an AddAdvice to it,
\* and a call that starts after the re-registration runs on the new chain
\* and invokes only advice held by it, none of a chain removed from the key
\* before; after Clear, Count is 0 and no key is registered.
C40_ReRegisterIsFresh ==
    /\ [](\A p \in Procs :
            LET s == inv[p]
                tr == s.trace
            IN  (Registered(s) /\ RemovedAt(tr) = {}) =>
                   /\ IsRegistered(entries, s.key)
                   /\ entries[s.key] = s.chain
                   /\ s.chain \notin RemovedFrom(s.key)
                   /\ \A i \in DOMAIN tr : tr[i].ev = "handler" =>
                         \E x \in AllAdvice(chains[entries[s.key]]) :
                            x.id = tr[i].id /\ x.Type = tr[i].ph /\ x.Handler = tr[i].h)
    /\ [][\A k \in LifeKeys : FreshChain(k) /\ ZeroUntilAdded(k)]_vars
    /\ [][EmptyAfterClear]_vars

\* a chain with Before advice was removed from a key, the key was registered
\* again, and a call of the key that started afterwards ran its Before phase
\* on the new chain, invoked no Before handler and ran the target
C40_Witness ==
    \E p \in Procs :
        LET s == inv[p]
            tr == s.trace
        IN  /\ Registered(s) /\ Finished(s) /\ RemovedAt(tr) = {}
            /\ \E c \in RemovedFrom(s.key) : Len(chains[c].before) > 0
            /\ IsRegistered(entries, s.key)
            /\ \E i \in PhaseStarts(tr, Before) : tr[i].ids = <<>>
            /\ Cardinality(TargetCalls(tr)) = 1
            /\ HandlerCalls(tr, Before) = {}

---------------------------------------------------------------------------
(* Locks: registry.mu and the mu of every chain, as the registry operations *)
(* and the calls of wrapped functions take and release them.  A goroutine   *)
(* runs a registry operation, or a call: the chain lookup, then each phase  *)
(* (read lock, copy of the bucket, unlock, then the handlers), HasAround    *)
(* and the target thunk.  A handler may call one registry operation on the  *)
(* key of its call before it returns.  A waiting writer holds back new      *)
(* readers, as sync.RWMutex does.                                           *)

LockProcs == {"g1", "g2"}
LockKey == "F"
LockOps == {"Register", "AddAdvice", "Unregister", "GetAdviceCount"}

\* the operations that take registry.mu.RLock(); the others take Lock()
LockMode(op) == IF op \in {"GetAdviceChain", "GetAdviceCount"} THEN "R" ELSE "W"

LockIdle ==
    [pc        |-> "idle",
     op        |-> "",
     from      |-> "",       \* who called the operation: "", "call" or "handler"
     holds     |-> "",       \* how this goroutine holds registry.mu: "", "R", "W"
     chainHeld |-> 0,        \* the chain whose mu this goroutine holds
     chainMode |-> "",       \* and how: "", "R", "W"
     found     |-> 0,        \* chain, exists := registry.entries[funcKey]
     chain     |-> 0,        \* the chain the call fetched
     at        |-> "",       \* the phase of the call
     list      |-> 0,        \* handlers of the copy not yet invoked
     called    |-> FALSE]    \* the running handler has made its registry call

InitLocks ==
    /\ entries = <<>>
    /\ chains = <<>>
    /\ inv = [p \in LockProcs |-> LockIdle]

\* sync.RWMutex of the registry: Lock() waits for all holders; RLock() waits
\* for a writer that holds the lock or waits for it
MuGranted(p, mode) ==
    /\ \A q \in LockProcs : IF mode = "W" THEN inv[q].holds = "" ELSE inv[q].holds # "W"
    /\ mode = "R" =>
          \A q \in LockProcs \ {p} : ~(inv[q].pc = "lock" /\ LockMode(inv[q].op) = "W")

\* sync.RWMutex of a chain, which a goroutine that holds it cannot take again
\* for writing
AcGranted(p, chain, mode) ==
    /\ \A q \in LockProcs :
          IF mode = "W" THEN inv[q].chainHeld # chain
          ELSE ~(inv[q].chainHeld = chain /\ inv[q].chainMode = "W")
    /\ mode = "R" =>
          \A q \in LockProcs \ {p} :
             ~(inv[q].pc = "chainLock" /\ inv[q].found = chain /\ inv[q].op = "AddAdvice")

\* a goroutine, or the handler it is running, calls a registry operation
OpCall(p, op) ==
    /\ inv[p].pc \in {"idle", "handler"}
    /\ inv[p].pc = "handler" => ~inv[p].called
    /\ op = "Register" => Len(chains) < MaxChains
    /\ op = "AddAdvice" => \A i \in DOMAIN chains : Count(chains[i]) < MaxAdvice
    /\ inv' = [inv EXCEPT ![p] =
                 [@ EXCEPT !.pc = "lock", !.op = op, !.called = TRUE,
                           !.from = IF inv[p].pc = "idle" THEN "" ELSE "handler"]]
    /\ UNCHANGED <<entries, chains>>

\* the wrapped function is called: the engine calls registry.GetAdviceChain
CallBegin(p) ==
    /\ inv[p].pc = "idle"
    /\ inv' = [inv EXCEPT ![p] =
                 [@ EXCEPT !.pc = "lock", !.op = "GetAdviceChain", !.from = "call"]]
    /\ UNCHANGED <<entries, chains>>

\* registry.mu.Lock() / RLock() returns
MuLock(p) ==
    /\ inv[p].pc = "lock"
    /\ MuGranted(p, LockMode(inv[p].op))
    /\ inv' = [inv EXCEPT ![p] = [@ EXCEPT !.pc = "body", !.holds = LockMode(inv[p].op)]]
    /\ UNCHANGED <<entries, chains>>

\* the statements of the operation under registry.mu, up to its return or
\* to the call of a method of the chain
MuBody(p) ==
    LET s == inv[p]
        exists == Exists(entries, LockKey)
    IN
    /\ s.pc = "body"
    /\ CASE s.op = "Register" /\ ~exists ->
              /\ chains' = Append(chains, NewAdviceChain)
              /\ entries' = Put(entries, LockKey, Len(chains) + 1)
         [] s.op = "Unregister" ->
              /\ entries' = Delete(entries, LockKey)
              /\ UNCHANGED chains
         [] OTHER -> UNCHANGED <<entries, chains>>
    /\ inv' = [inv EXCEPT ![p] =
         CASE s.op \in {"AddAdvice", "GetAdviceCount"} /\ exists ->
                [s EXCEPT !.pc = "chainLock", !.found = entries[LockKey]]
           [] s.op = "GetAdviceChain" /\ exists ->
                [s EXCEPT !.pc = "unlock", !.chain = entries[LockKey]]
           [] OTHER -> [s EXCEPT !.pc = "unlock"]]

\* chain.Add / chain.Count: ac.mu.Lock() / RLock() returns
AcLock(p) ==
    LET mode == IF inv[p].op = "AddAdvice" THEN "W" ELSE "R" IN
    /\ inv[p].pc = "chainLock"
    /\ AcGranted(p, inv[p].found, mode)
    /\ inv' = [inv EXCEPT ![p] =
                 [@ EXCEPT !.pc = "chainBody", !.chainHeld = inv[p].found, !.chainMode = mode]]
    /\ UNCHANGED <<entries, chains>>

\* chain.Add / chain.Count: the body and the deferred unlock
AcBody(p) ==
    /\ inv[p].pc = "chainBody"
    /\ IF inv[p].op = "AddAdvice"
       THEN chains' = [chains EXCEPT ![inv[p].found] =
                         Add(@, [Type |-> RegAdvice.Type, Priority |-> RegAdvice.Priority,
                                 Handler |-> RegAdvice.Handler, id |-> Count(@) + 1])]
       ELSE UNCHANGED chains
    /\ inv' = [inv EXCEPT ![p] =
                 [@ EXCEPT !.pc = "unlock", !.chainHeld = 0, !.chainMode = "", !.found = 0]]
    /\ UNCHANGED entries

\* the deferred registry.mu.Unlock() / RUnlock() and the return: to the
\* caller, to the handler that called, or into the engine
MuUnlock(p) ==
    LET s == inv[p]
        out == [s EXCEPT !.holds = "", !.op = "", !.from = ""]
    IN
    /\ s.pc = "unlock"
    /\ inv' = [inv EXCEPT ![p] =
         CASE s.from = "handler" -> [out EXCEPT !.pc = "handler"]
           [] s.from = "call" ->
                IF s.chain = 0 THEN [out EXCEPT !.pc = "thunk", !.at = "fast"]
                ELSE [out EXCEPT !.pc = "phaseLock", !.at = Before]
           [] OTHER -> LockIdle]
    /\ UNCHANGED <<entries, chains>>

\* Execute<Phase> / HasAround: ac.mu.RLock() returns
PhaseRLock(p) ==
    /\ inv[p].pc = "phaseLock"
    /\ AcGranted(p, inv[p].chain, "R")
    /\ inv' = [inv EXCEPT ![p] =
                 [@ EXCEPT !.pc = "phaseCopy", !.chainHeld = inv[p].chain, !.chainMode = "R"]]
    /\ UNCHANGED <<entries, chains>>

\* where the engine goes when the phase it is in is over
AfterPhase(s) ==
    CASE s.at = Before         -> [s EXCEPT !.pc = "phaseLock", !.at = "HasAround"]
      [] s.at = Around         -> [s EXCEPT !.pc = "thunk", !.at = "Target"]
      [] s.at = "Target"       -> [s EXCEPT !.pc = "phaseLock", !.at = AfterReturning]
      [] s.at = AfterReturning -> [s EXCEPT !.pc = "phaseLock", !.at = After]
      [] OTHER                 -> LockIdle

\* PhaseCopy as it would be if Execute<Phase> kept the read lock of the chain
\* while the handlers of the copy run
PhaseCopyKeepingLock(p) ==
    LET s == inv[p]
        n == IF s.at = "HasAround" THEN 0 ELSE Len(Bucket(chains[s.chain], s.at))
        free == [s EXCEPT !.chainHeld = 0, !.chainMode = ""]
    IN
    /\ s.pc = "phaseCopy"
    /\ inv' = [inv EXCEPT ![p] =
         IF s.at = "HasAround"
         THEN IF Len(chains[s.chain].around) > 0
              THEN [free EXCEPT !.pc = "phaseLock", !.at = Around]
              ELSE [free EXCEPT !.pc = "thunk", !.at = "Target"]
         ELSE IF n > 0 THEN [s EXCEPT !.pc = "handler", !.list = n, !.called = FALSE]
         ELSE AfterPhase(free)]
    /\ UNCHANGED <<entries, chains>>

\* Execute<Phase>: the copy of the bucket and ac.mu.RUnlock(), then the first
\* handler of the copy; HasAround: the test under the lock and the unlock
PhaseCopy(p) ==
    LET s == inv[p]
        n == IF s.at = "HasAround" THEN 0 ELSE Len(Bucket(chains[s.chain], s.at))
        free == [s EXCEPT !.chainHeld = 0, !.chainMode = ""]
    IN
    /\ s.pc = "phaseCopy"
    /\ inv' = [inv EXCEPT ![p] =
         IF s.at = "HasAround"
         THEN IF Len(chains[s.chain].around) > 0
              THEN [free EXCEPT !.pc = "phaseLock", !.at = Around]
              ELSE [free EXCEPT !.pc = "thunk", !.at = "Target"]
         ELSE IF n > 0 THEN [free EXCEPT !.pc = "handler", !.list = n, !.called = FALSE]
         ELSE AfterPhase(free)]
    /\ UNCHANGED <<entries, chains>>

\* the running handler returns nil: the next handler of the copy, or the end
\* of the phase
HandlerDone(p) ==
    /\ inv[p].pc = "handler"
    /\ inv' = [inv EXCEPT ![p] =
                 IF @.list > 1 THEN [@ EXCEPT !.list = @ - 1, !.called = FALSE]
                 ELSE AfterPhase([@ EXCEPT !.list = 0, !.called = FALSE])]
    /\ UNCHANGED <<entries, chains>>

\* the target thunk runs and returns
RunThunk(p) ==
    /\ inv[p].pc = "thunk"
    /\ inv' = [inv EXCEPT ![p] = IF @.at = "fast" THEN LockIdle ELSE AfterPhase(@)]
    /\ UNCHANGED <<entries, chains>>

\* a step of goroutine p inside an operation or a call
LockStep(p) ==
    \/ MuLock(p) \/ MuBody(p) \/ AcLock(p) \/ AcBody(p) \/ MuUnlock(p)
    \/ PhaseRLock(p) \/ PhaseCopy(p) \/ HandlerDone(p) \/ RunThunk(p)

NextLocks ==
    \/ \E p \in LockProcs, op \in LockOps : OpCall(p, op)
    \/ \E p \in LockProcs : CallBegin(p)
    \/ \E p \in LockProcs : MuLock(p)
    \/ \E p \in LockProcs : MuBody(p)
    \/ \E p \in LockProcs : AcLock(p)
    \/ \E p \in LockProcs : AcBody(p)
    \/ \E p \in LockProcs : MuUnlock(p)
    \/ \E p \in LockProcs : PhaseRLock(p)
    \/ \E p \in LockProcs : PhaseCopy(p)
    \/ \E p \in LockProcs : HandlerDone(p)
    \/ \E p \in LockProcs : RunThunk(p)

\* the Go scheduler runs every goroutine that can run, and a goroutine that
\* waits for a mutex gets it if the mutex is free again and again
SpecLocks ==
    InitLocks /\ [][NextLocks]_vars /\ \A p \in LockProcs : SF_vars(LockStep(p))

---------------------------------------------------------------------------
(* C39 *)

\* goroutine p is inside an operation or a call
Busy(p) == inv[p].pc # "idle"

\* no lock is held by a goroutine whose handler or target thunk is running
NoLockWhileRunning ==
    \A p \in LockProcs :
        inv[p].pc \in {"handler", "thunk"} => inv[p].holds = "" /\ inv[p].chainHeld = 0

\* a goroutine that asks for registry.mu holds no lock, and one that asks for
\* the mu of a chain holds no chain's mu: registry first, then chain
LockOrder ==
    \A p \in LockProcs :
        /\ inv[p].pc = "lock" => inv[p].holds = "" /\ inv[p].chainHeld = 0
        /\ inv[p].pc \in {"chainLock", "phaseLock"} => inv[p].chainHeld = 0
        /\ inv[p].pc = "phaseLock" => inv[p].holds = ""

\* while a goroutine is busy some busy goroutine can take a step
NoDeadlock ==
    (\E p \in LockProcs : Busy(p)) => \E p \in LockProcs : ENABLED LockStep(p)

\* C39: no registry lock and no chain lock is held while a handler or the
\* target thunk runs; locks are asked for in the order registry, then chain;
\* so with handlers that call Register, AddAdvice, Unregister or
\* GetAdviceCount on the key of their call, in every interleaving some busy
\* goroutine can always go on, and every operation and every call that was
\* begun completes.
C39_LockFreeHandlersNoDeadlock ==
    /\ [](NoLockWhileRunning /\ LockOrder /\ NoDeadlock)
    /\ \A p \in LockProcs : Busy(p) ~> ~Busy(p)

\* a Before handler has called AddAdvice on the key of its call and is
\* inside chain.Add, holding registry.mu and the mu of the chain its call
\* runs on, while the other goroutine waits for registry.mu
C39_Witness ==
    \E p \in LockProcs : \E q \in LockProcs \ {p} :
        /\ inv[p].from = "handler" /\ inv[p].op = "AddAdvice"
        /\ inv[p].pc = "chainBody"
        /\ inv[p].holds = "W"
        /\ inv[p].chainHeld = inv[p].chain
        /\ inv[q].pc = "lock"

====
